---- MODULE Spec2Model ----
(***************************************************************************)
(* Model of UMCPClient (Source/UnrealBlueprintMCP/Private/MCPClient.cpp):  *)
(* the connection state machine, the pending-request map, the game-thread  *)
(* task queue that carries inbound messages and state notifications, the   *)
(* auto-reconnect timer, the dispatch of inbound commands to the blueprint *)
(* handlers, the status widgets that LogMessage notifies, the encoding and *)
(* decoding of messages on the wire, and the statements of SendRequest,    *)
(* Disconnect and the message task that share RequestsMutex.               *)
(*                                                                         *)
(* The UMCPClient object is the record built by Self; every method of the  *)
(* class is an operator from such a record to the record after the call,   *)
(* so that nested calls (AttemptReconnect -> Connect -> SetConnectionState)*)
(* compose as they do in the source. The actions at the end apply one      *)
(* public call, one transport event, one timer expiry or one game-thread   *)
(* task to the object.                                                     *)
(*                                                                         *)
(* Environment. Transport events are delivered for the socket the client   *)
(* holds and follow its life cycle: connected/error while it is            *)
(* connecting, message/closed while it is open. FWebSocketsModule::        *)
(* CreateWebSocket returns a TSharedRef, so the handle it yields is always *)
(* valid. Whether GEngine can resolve a UWorld for the client (the timer   *)
(* manager lives in the world) is an input fixed at start-up, and so is    *)
(* the thread the socket's events arrive on. A status widget is destroyed  *)
(* in a step of its own, never in the middle of a notify.                  *)
(***************************************************************************)
EXTENDS Integers, Sequences, FiniteSets, TLC

\* ---------------------------------------------------------------- bounds
MaxQueue == 1

\* ------------------------------------------------------------- constants
MaxReconnectAttempts == 10
BaseReconnectDelay == 2
MaxReconnectDelay == 60

\* UMCPSettings::MaxReconnectAttempts as the UMCPSettings constructor sets it
SettingsMaxReconnectAttempts == 3

\* ---------------------------------------------------------- input domains
Ids == {"req_1", "req_2"}
ErrorStrings == {"", "E1"}
TableMethods == {"create_blueprint", "set_property", "set_blueprint_property",
                 "add_component", "compile_blueprint", "get_server_status"}
EmptyMap == [x \in {} |-> ""]

VARIABLES
    \* UMCPClient members
    MCPSettings,              \* TRUE when the settings pointer is non-null
    BlueprintManager,         \* TRUE when the manager pointer is non-null
    WebSocket,                \* "null" | "idle" | "connecting" | "open"
    CurrentConnectionState,   \* EMCPConnectionState
    LastErrorMessage,
    bAutoReconnectEnabled,
    ReconnectAttempts,
    AutoReconnectTimerHandle, \* 0 when cleared, else the delay it was set with
    PendingRequests,          \* request id -> method
    RegisteredStatusWidgets,  \* the TWeakPtr<SMCPStatusWidget> array, as widget names
    \* engine
    GameThreadTasks,          \* FIFO of AsyncTask(ENamedThreads::GameThread)
    \* environment
    World,                    \* GEngine and its world are available
    QueueCapacity,            \* the tasks the game thread lets queue up
    ValidWidgets,             \* the status widgets that have not been destroyed
    TransportOnGameThread,    \* the socket delivers its events on the game thread
    DisconnectThread,         \* a Disconnect() running on another thread
    RequestsMutex,            \* "" when free, else the context that holds the lock
    SendThread,               \* a SendRequest() running on a thread of its own
    TaskThread,               \* the game thread inside the task of a message
    \* history
    lastCall,                 \* the call, event or task that ran last
    staleIds,                 \* pending ids whose Connected period has ended
    cleanClosed,              \* clean close seen, no explicit Connect() since
    freshReset,               \* connected or Disconnect()ed, no retry scheduled since
    undelivered,              \* the states entered and not yet broadcast, in order
    lastEffects,              \* what the last step of the message path did outside
    lastDelivery,             \* what the last step delivered to delegates and widgets
    staleTasks                \* queued message tasks received on an earlier connection

objVars == <<MCPSettings, BlueprintManager, WebSocket, CurrentConnectionState,
             LastErrorMessage, bAutoReconnectEnabled, ReconnectAttempts,
             AutoReconnectTimerHandle, PendingRequests, RegisteredStatusWidgets,
             GameThreadTasks>>
threadVars == <<RequestsMutex, SendThread, TaskThread>>
vars == <<objVars, World, QueueCapacity, ValidWidgets, TransportOnGameThread, DisconnectThread,
          threadVars, lastCall, staleIds, cleanClosed, freshReset, undelivered, lastEffects,
          lastDelivery, staleTasks>>

ConnectionStates == {"Disconnected", "Connecting", "Connected", "Failed", "Disabled"}

\* The object as a record. io, events, handlerCalls and logs collect what one
\* call does to the outside (calls on the IWebSocket, delegate broadcasts,
\* command handlers run, NotifyStatusWidgets calls made by LogMessage) and ret
\* is the string it returns; they start empty for each call and are not kept.
\* bIsInGameThread is what IsInGameThread() answers during the call and
\* widgetCalls the calls made on status widgets.
Self ==
    [MCPSettings |-> MCPSettings, BlueprintManager |-> BlueprintManager,
     WebSocket |-> WebSocket, CurrentConnectionState |-> CurrentConnectionState,
     LastErrorMessage |-> LastErrorMessage,
     bAutoReconnectEnabled |-> bAutoReconnectEnabled,
     ReconnectAttempts |-> ReconnectAttempts,
     AutoReconnectTimerHandle |-> AutoReconnectTimerHandle,
     PendingRequests |-> PendingRequests,
     RegisteredStatusWidgets |-> RegisteredStatusWidgets,
     GameThreadTasks |-> GameThreadTasks,
     io |-> <<>>, events |-> <<>>, handlerCalls |-> <<>>, logs |-> <<>>, ret |-> "",
     bIsInGameThread |-> TRUE, widgetCalls |-> <<>>]

Min(a, b) == IF a <= b THEN a ELSE b

Pow2(n) == 2 ^ n

\* A JSON value of the wire: its EJson type and its text
JAbsent == [type |-> "absent", text |-> ""]
JString(t) == [type |-> "string", text |-> t]
JObject(t) == [type |-> "object", text |-> t]
JArray(t) == [type |-> "array", text |-> t]

Json(id, method, params, result, error) ==
    [valid |-> TRUE, id |-> id, method |-> method, params |-> params,
     result |-> result, error |-> error]

MalformedJson ==
    [valid |-> FALSE, id |-> JAbsent, method |-> JAbsent, params |-> JAbsent,
     result |-> JAbsent, error |-> JAbsent]

NoMessage == [Id |-> "", Type |-> "", Method |-> "", Params |-> "", Result |-> "", Error |-> ""]

StateTask(NewState, ErrorMessage) ==
    [kind |-> "state", NewState |-> NewState, ErrorMessage |-> ErrorMessage,
     Message |-> NoMessage, JsonMessage |-> MalformedJson,
     MessageLogLevel |-> "", LogMessage |-> ""]

\* The lambda ProcessIncomingMessage queues: it captures the parsed message
\* and the text received
MessageTask(Message, JsonMessage) ==
    [kind |-> "msg", NewState |-> "", ErrorMessage |-> "", Message |-> Message,
     JsonMessage |-> JsonMessage, MessageLogLevel |-> "", LogMessage |-> ""]

\* The lambda NotifyStatusWidgets queues when it is not on the game thread
LogTask(Level, Message) ==
    [kind |-> "log", NewState |-> "", ErrorMessage |-> "", Message |-> NoMessage,
     JsonMessage |-> MalformedJson, MessageLogLevel |-> Level, LogMessage |-> Message]

WsCall(op, id, method, payload) ==
    [op |-> op, id |-> id, method |-> method, payload |-> payload]

Broadcast(delegate, id, ok, data) ==
    [delegate |-> delegate, id |-> id, ok |-> ok, data |-> data]

\* A call on a status widget; notify counts the NotifyStatusWidgets calls of
\* the step
WidgetCall(notify, widget, call, level, arg) ==
    [notify |-> notify, widget |-> widget, call |-> call, level |-> level, arg |-> arg]

\* Mutant: a removal that leaves the array as it is
RemoveAtKept(a, i) == a

\* TArray::RemoveAt
RemoveAt(a, i) == SubSeq(a, 1, i - 1) \o SubSeq(a, i + 1, Len(a))

\* The loop of NotifyStatusWidgets from index i down to the first element:
\* a widget that is still valid gets the entry and the connection state, a
\* reference that is not is removed
RECURSIVE NotifyWidgetsFrom(_, _, _, _)
NotifyWidgetsFrom(c, i, Level, Message) ==
    IF i = 0 THEN c
    ELSE LET Widget == c.RegisteredStatusWidgets[i]
         IN IF Widget \in ValidWidgets
            THEN NotifyWidgetsFrom(
                     [c EXCEPT !.widgetCalls = @ \o
                         <<WidgetCall(Len(c.logs), Widget, "AddLogEntry", Level, Message),
                           WidgetCall(Len(c.logs), Widget, "UpdateConnectionStatus", "",
                                      c.CurrentConnectionState)>>],
                     i - 1, Level, Message)
            ELSE NotifyWidgetsFrom(
                     [c EXCEPT !.RegisteredStatusWidgets = RemoveAt(@, i)],
                     i - 1, Level, Message)

\* Mutant: a NotifyStatusWidgets that calls the widgets on whatever thread it
\* is on
NotifyStatusWidgetsAnyThread(c, Level, Message) ==
    LET c1 == [c EXCEPT !.logs = Append(@, [level |-> Level, message |-> Message])]
    IN NotifyWidgetsFrom(c1, Len(c1.RegisteredStatusWidgets), Level, Message)

\* UMCPClient::NotifyStatusWidgets: on the game thread the entry is handed to
\* the registered widgets at once, elsewhere an AsyncTask is queued that
\* calls NotifyStatusWidgets again on the game thread. logs keeps every call.
NotifyStatusWidgets(c, Level, Message) ==
    LET c1 == [c EXCEPT !.logs = Append(@, [level |-> Level, message |-> Message])]
    IN IF ~c1.bIsInGameThread
       THEN [c1 EXCEPT !.GameThreadTasks = Append(@, LogTask(Level, Message))]
       ELSE NotifyWidgetsFrom(c1, Len(c1.RegisteredStatusWidgets), Level, Message)

\* The level LogMessage derives from the verbosity
MessageLogLevel(Verbosity) ==
    IF Verbosity \in {"Error", "Warning"} THEN Verbosity ELSE "Info"

\* UMCPClient::LogMessage; formatted arguments are left out of the text, but
\* for the method ProcessBlueprintCommand logs
LogMessage(c, Message, Verbosity) ==
    NotifyStatusWidgets(c, MessageLogLevel(Verbosity), Message)

\* Mutant: a task queue that runs the newest task first
AsyncTaskFront(q, t) == <<t>> \o q

\* AsyncTask(ENamedThreads::GameThread, ...): the task joins the queue of the
\* game thread behind those already there
AsyncTask(q, t) == Append(q, t)

\* ------------------------------------------------- connection management

\* UMCPClient::SetConnectionState
SetConnectionState(c, NewState, ErrorMessage) ==
    IF c.CurrentConnectionState # NewState
    THEN LET c1 == [c EXCEPT !.CurrentConnectionState = NewState,
                             !.LastErrorMessage = IF ErrorMessage # "" THEN ErrorMessage ELSE @]
             c2 == LogMessage(c1, "Connection state changed", "Log")
         IN [c2 EXCEPT !.GameThreadTasks = AsyncTask(@, StateTask(NewState, ErrorMessage))]
    ELSE c

\* Mutant: a ResetReconnectAttempts that keeps the count
ResetReconnectAttemptsKept(c) == c

\* UMCPClient::ResetReconnectAttempts
ResetReconnectAttempts(c) == [c EXCEPT !.ReconnectAttempts = 0]

\* The exponential backoff of StartAutoReconnectTimer
BackoffDelay(n) == Min(BaseReconnectDelay * Pow2(n), MaxReconnectDelay)

\* UMCPClient::StartAutoReconnectTimer
StartAutoReconnectTimer(c) ==
    IF ~c.bAutoReconnectEnabled \/ ~World
    THEN c
    ELSE [LogMessage(c, "Scheduling auto-reconnect", "Log")
             EXCEPT !.AutoReconnectTimerHandle = BackoffDelay(c.ReconnectAttempts)]

\* Mutant: a StopAutoReconnectTimer that leaves the timer running
StopAutoReconnectTimerSkipped(c) == c

\* UMCPClient::StopAutoReconnectTimer
StopAutoReconnectTimer(c) ==
    IF World THEN [c EXCEPT !.AutoReconnectTimerHandle = 0] ELSE c

\* UMCPClient::IsConnected
IsConnected(c) == c.CurrentConnectionState = "Connected"

\* UMCPClient::ValidateConnectionSettings; bValid is what
\* UMCPSettings::ValidateSettings returns for the settings as they are at the
\* time of the call
ValidateConnectionSettings(c, bValid) == c.MCPSettings /\ bValid

\* Mutant: a SendRawMessage that does not look at the connection state
SendRawMessageAnyState(c, msg) ==
    IF c.WebSocket = "null"
    THEN [c |-> LogMessage(c, "Cannot send message: WebSocket not connected", "Warning"),
          ret |-> FALSE]
    ELSE [c |-> [c EXCEPT !.io = Append(@, msg)], ret |-> TRUE]

\* UMCPClient::SendRawMessage; msg is the io entry the send would make
SendRawMessage(c, msg) ==
    IF c.WebSocket = "null" \/ ~IsConnected(c)
    THEN [c |-> LogMessage(c, "Cannot send message: WebSocket not connected", "Warning"),
          ret |-> FALSE]
    ELSE [c |-> [c EXCEPT !.io = Append(@, msg)], ret |-> TRUE]

\* UMCPClient::SendNotification
SendNotification(c, Method, Params) ==
    IF ~IsConnected(c)
    THEN [c |-> LogMessage(c, "Cannot send notification: Not connected to MCP server",
                           "Warning"),
          ret |-> FALSE]
    ELSE LET r == SendRawMessage(c, WsCall("Send", "", Method, Params))
         IN IF r.ret
            THEN [c |-> LogMessage(r.c, "Sent MCP notification", "Log"), ret |-> TRUE]
            ELSE [c |-> LogMessage(r.c, "Failed to send MCP notification", "Error"),
                  ret |-> FALSE]

\* Mutant: the early return of Connect() taken only when Connected
AlreadyConnectedOnly(c) == c.CurrentConnectionState = "Connected"

\* The early return of Connect(): already connected or connecting
AlreadyConnectedOrConnecting(c) ==
    c.CurrentConnectionState \in {"Connected", "Connecting"}

\* "Create WebSocket if needed" of Connect(): a fresh socket is idle
CreateWebSocketIfNeeded(ws) == IF ws = "null" THEN "idle" ELSE ws

\* IWebSocket::Connect as called by Connect(): a socket that is not open starts
\* its handshake, an open one stays open.
WebSocketConnect(ws) == IF ws = "open" THEN "open" ELSE "connecting"

\* UMCPClient::Connect
Connect(c, bValid) ==
    IF ~c.MCPSettings
    THEN [c |-> LogMessage(c, "Cannot connect: MCPClient not initialized", "Error"),
          ret |-> FALSE]
    ELSE IF AlreadyConnectedOrConnecting(c)
    THEN [c |-> LogMessage(c, "Already connected or connecting to MCP server", "Log"),
          ret |-> TRUE]
    ELSE IF ~ValidateConnectionSettings(c, bValid)
    THEN [c |-> SetConnectionState(c, "Failed", "Invalid connection settings"),
          ret |-> FALSE]
    ELSE LET c1 == SetConnectionState(c, "Connecting", "")
             c2 == LogMessage(c1, "Attempting to connect to MCP server", "Log")
         IN [c |-> [c2 EXCEPT !.WebSocket = WebSocketConnect(CreateWebSocketIfNeeded(c.WebSocket)),
                              !.io = Append(@, WsCall("Connect", "", "", ""))],
             ret |-> TRUE]

\* Mutant: a Disconnect that leaves the pending requests in place
PurgePendingSkipped(c) == c

\* The purge of Disconnect(): PendingRequests.Empty() under RequestsMutex
PurgePending(c) == [c EXCEPT !.PendingRequests = EmptyMap]

\* The "if (WebSocket.IsValid())" block of Disconnect(): the optional
\* session/end notification, Close() and Reset()
CloseWebSocket(c, bGraceful) ==
    IF c.WebSocket # "null"
    THEN LET c1 == IF bGraceful /\ IsConnected(c)
                   THEN SendNotification(c, "session/end", "{}").c
                   ELSE c
         IN [c1 EXCEPT !.io = Append(@, WsCall("Close", "", "", "")),
                       !.WebSocket = "null"]
    ELSE c

\* UMCPClient::Disconnect
Disconnect(c, bGraceful) ==
    LET c1 == StopAutoReconnectTimer(c)
        c2 == CloseWebSocket(c1, bGraceful)
        c3 == PurgePending(c2)
        c4 == SetConnectionState(c3, "Disconnected", "")
    IN LogMessage(ResetReconnectAttempts(c4), "Disconnected from MCP server", "Log")

\* UMCPClient::Initialize (the settings pointer is never null afterwards:
\* UMCPSettings::Get returns the class default object)
Initialize(c, bValid) ==
    LET c1 == [c EXCEPT !.MCPSettings = TRUE]
    IN IF ~ValidateConnectionSettings(c1, bValid)
       THEN [c |-> LogMessage(c1, "Failed to initialize MCPClient: Invalid connection settings",
                              "Error"),
             ret |-> FALSE]
       ELSE LET c2 == [c1 EXCEPT !.BlueprintManager = TRUE]
                c3 == SetConnectionState(c2, "Disconnected", "")
            IN [c |-> LogMessage(ResetReconnectAttempts(c3),
                                 "MCPClient initialized successfully", "Log"),
                ret |-> TRUE]

\* UMCPClient::SetAutoReconnectEnabled
SetAutoReconnectEnabled(c, bEnable) ==
    LET c1 == [c EXCEPT !.bAutoReconnectEnabled = bEnable]
    IN LogMessage(IF ~bEnable THEN StopAutoReconnectTimer(c1) ELSE c1,
                  "Auto-reconnect " \o (IF bEnable THEN "enabled" ELSE "disabled"), "Log")

\* ------------------------------------------------ transport event handlers

\* Mutant: a transport-opened handler that keeps the attempt counter
OnWebSocketConnectedNoReset(c) ==
    SetConnectionState(LogMessage(c, "WebSocket connected to MCP server", "Log"),
                       "Connected", "")

\* UMCPClient::OnWebSocketConnected
OnWebSocketConnected(c) ==
    ResetReconnectAttempts(
        SetConnectionState(LogMessage(c, "WebSocket connected to MCP server", "Log"),
                           "Connected", ""))

\* The reconnect condition shared by the error and close handlers
ShouldAutoReconnect(c) ==
    c.bAutoReconnectEnabled /\ c.ReconnectAttempts < MaxReconnectAttempts

\* UMCPClient::OnWebSocketConnectionError
OnWebSocketConnectionError(c, Error) ==
    LET c0 == LogMessage(c, "WebSocket connection error", "Error")
        c1 == SetConnectionState(c0, "Failed", Error)
    IN IF ShouldAutoReconnect(c1) THEN StartAutoReconnectTimer(c1) ELSE c1

\* The state an OnClosed event leads to
StateAfterClose(bWasClean) == IF bWasClean THEN "Disconnected" ELSE "Failed"

\* UMCPClient::OnWebSocketClosed
OnWebSocketClosed(c, Reason, bWasClean) ==
    LET c1 == [LogMessage(c, "WebSocket connection closed", "Log") EXCEPT !.WebSocket = "null"]
    IN IF c1.CurrentConnectionState # "Disconnected"
       THEN LET c2 == SetConnectionState(c1, StateAfterClose(bWasClean), Reason)
            IN IF ~bWasClean /\ ShouldAutoReconnect(c2)
               THEN StartAutoReconnectTimer(c2) ELSE c2
       ELSE c1

\* The two texts of the give-up branch of AttemptReconnect
MaxAttemptsLog == "Maximum reconnection attempts reached, giving up"
MaxAttemptsError == "Maximum reconnection attempts reached"

\* Mutant: an AttemptReconnect that does not count the attempt
AttemptReconnectUncounted(c, bValid) ==
    IF c.CurrentConnectionState \in {"Connected", "Connecting"} THEN c
    ELSE IF c.ReconnectAttempts >= MaxReconnectAttempts
    THEN SetConnectionState(LogMessage(c, MaxAttemptsLog, "Error"), "Failed", MaxAttemptsError)
    ELSE LET r == Connect(LogMessage(c, "Auto-reconnect attempt", "Log"), bValid)
         IN IF ~r.ret THEN StartAutoReconnectTimer(r.c) ELSE r.c

\* Mutant: an AttemptReconnect without the give-up branch
AttemptReconnectUncapped(c, bValid) ==
    IF c.CurrentConnectionState \in {"Connected", "Connecting"} THEN c
    ELSE LET c1 == LogMessage([c EXCEPT !.ReconnectAttempts = @ + 1],
                              "Auto-reconnect attempt", "Log")
             r == Connect(c1, bValid)
         IN IF ~r.ret THEN StartAutoReconnectTimer(r.c) ELSE r.c

\* UMCPClient::AttemptReconnect
AttemptReconnect(c, bValid) ==
    IF c.CurrentConnectionState \in {"Connected", "Connecting"} THEN c
    ELSE IF c.ReconnectAttempts >= MaxReconnectAttempts
    THEN SetConnectionState(LogMessage(c, MaxAttemptsLog, "Error"), "Failed", MaxAttemptsError)
    ELSE LET c1 == LogMessage([c EXCEPT !.ReconnectAttempts = @ + 1],
                              "Auto-reconnect attempt", "Log")
             r == Connect(c1, bValid)
         IN IF ~r.ret THEN StartAutoReconnectTimer(r.c) ELSE r.c

\* -------------------------------------------------------- message handling

RequestMethods == {"tools/list"}

HasField(v) == v.type # "absent"

\* FJsonObject::TryGetStringField: the value when the field is a string
TryGetStringField(v) == IF v.type = "string" THEN v.text ELSE ""

\* Mutant: a classification that takes a message without method, result and
\* error for a response
MessageTypeNoUnknown(json, Id) ==
    IF HasField(json.method)
    THEN (IF Id # "" THEN "request" ELSE "notification")
    ELSE "response"

\* "Determine message type based on content" of ParseMCPMessage
MessageType(json, Id) ==
    IF HasField(json.method)
    THEN (IF Id # "" THEN "request" ELSE "notification")
    ELSE IF HasField(json.result) \/ HasField(json.error) THEN "response"
    ELSE "unknown"

\* The three payload conversions of ParseMCPMessage
ParseParams(v) == IF v.type \in {"object", "string"} THEN v.text ELSE ""
ParseResult(v) == IF v.type \in {"object", "array", "string"} THEN v.text ELSE ""
ParseError(v) == IF v.type \in {"object", "string"} THEN v.text ELSE ""

\* Mutant: a parser that accepts text that is no JSON object
ParseMCPMessageLenient(json) ==
    LET Id == TryGetStringField(json.id)
    IN [ok |-> TRUE,
        Message |-> [Id |-> Id, Type |-> MessageType(json, Id),
                     Method |-> TryGetStringField(json.method),
                     Params |-> ParseParams(json.params),
                     Result |-> ParseResult(json.result),
                     Error |-> ParseError(json.error)]]

\* UMCPClient::ParseMCPMessage
ParseMCPMessage(json) ==
    IF ~json.valid THEN [ok |-> FALSE, Message |-> NoMessage]
    ELSE LET Id == TryGetStringField(json.id)
         IN [ok |-> TRUE,
             Message |-> [Id |-> Id, Type |-> MessageType(json, Id),
                          Method |-> TryGetStringField(json.method),
                          Params |-> ParseParams(json.params),
                          Result |-> ParseResult(json.result),
                          Error |-> ParseError(json.error)]]

\* The texts FJsonSerializer::Deserialize reads as a JSON object and as a JSON
\* array, named as FJsonSerializer::Serialize writes them, and the same
\* documents with other white space
JsonObjects == {"P", "R", "X"}
JsonArrays == {"A"}
Spaced(t) == " " \o t

\* What the writer prints for the document a text holds; a text that is no
\* JSON document stands for itself
Canonical(s) ==
    IF \E t \in JsonObjects \cup JsonArrays : s = Spaced(t)
    THEN CHOOSE t \in JsonObjects \cup JsonArrays : s = Spaced(t)
    ELSE s

\* FJsonSerializer::Deserialize into a TSharedPtr<FJsonObject>: JAbsent when
\* the text is no JSON object
DeserializeObject(s) ==
    IF Canonical(s) \in JsonObjects THEN JObject(Canonical(s)) ELSE JAbsent

\* FJsonSerializer::Deserialize into a TSharedPtr<FJsonValue>: an object or an
\* array, JAbsent otherwise
DeserializeValue(s) ==
    IF Canonical(s) \in JsonObjects THEN JObject(Canonical(s))
    ELSE IF Canonical(s) \in JsonArrays THEN JArray(Canonical(s))
    ELSE JAbsent

\* A string member written as a string field when it is not empty
StringField(s) == IF s = "" THEN JAbsent ELSE JString(s)

\* A payload member written as the document it holds, or as a string field
PayloadField(s, parsed) ==
    IF s = "" THEN JAbsent ELSE IF parsed # JAbsent THEN parsed ELSE JString(s)

\* Mutant: an encoder that leaves the error out
CreateJsonFromMCPMessageNoError(Message) ==
    Json(StringField(Message.Id), StringField(Message.Method),
         PayloadField(Message.Params, DeserializeObject(Message.Params)),
         PayloadField(Message.Result, DeserializeValue(Message.Result)),
         JAbsent)

\* UMCPClient::CreateJsonFromMCPMessage
CreateJsonFromMCPMessage(Message) ==
    Json(StringField(Message.Id), StringField(Message.Method),
         PayloadField(Message.Params, DeserializeObject(Message.Params)),
         PayloadField(Message.Result, DeserializeValue(Message.Result)),
         PayloadField(Message.Error, DeserializeObject(Message.Error)))

\* UMCPClient::ProcessIncomingMessage, up to the AsyncTask it queues
ProcessIncomingMessage(c, json) ==
    LET p == ParseMCPMessage(json)
    IN IF ~p.ok THEN LogMessage(c, "Failed to parse incoming MCP message", "Error")
       ELSE [c EXCEPT !.GameThreadTasks = AsyncTask(@, MessageTask(p.Message, json))]

\* UMCPClient::OnWebSocketMessage
OnWebSocketMessage(c, json) ==
    ProcessIncomingMessage(LogMessage(c, "Received WebSocket message", "Log"), json)

\* TMap::Add on PendingRequests
AddPending(p, id, method) == (id :> method) @@ p

\* Mutant: a removal that leaves the entry in the map
RemovePendingKept(p, id) == p

\* TMap::Remove on PendingRequests
RemovePending(p, id) == [x \in (DOMAIN p) \ {id} |-> p[x]]

\* UMCPClient::SendRequest; gen is the id GenerateRequestId would produce
SendRequest(c, Method, Params, RequestId, gen) ==
    IF ~IsConnected(c)
    THEN [c |-> LogMessage(c, "Cannot send request: Not connected to MCP server", "Warning"),
          ret |-> ""]
    ELSE LET ActualRequestId == IF RequestId = "" THEN gen ELSE RequestId
             c1 == [c EXCEPT !.PendingRequests = AddPending(@, ActualRequestId, Method)]
             r == SendRawMessage(c1, WsCall("Send", ActualRequestId, Method, Params))
         IN IF r.ret
            THEN [c |-> LogMessage(r.c, "Sent MCP request", "Log"), ret |-> ActualRequestId]
            ELSE [c |-> LogMessage([r.c EXCEPT !.PendingRequests =
                                               RemovePending(@, ActualRequestId)],
                                   "Failed to send MCP request", "Error"),
                  ret |-> ""]

\* Mutant: a routing that does not know set_blueprint_property
HandlerOfNoAlias(Method) ==
    IF Method = "create_blueprint" THEN "ProcessCreateBlueprintCommand"
    ELSE IF Method = "set_property" THEN "ProcessSetPropertyCommand"
    ELSE IF Method = "add_component" THEN "ProcessAddComponentCommand"
    ELSE IF Method = "compile_blueprint" THEN "ProcessCompileBlueprintCommand"
    ELSE IF Method = "get_server_status" THEN "ProcessGetServerStatusCommand"
    ELSE ""

\* The handler a command-table method is routed to
HandlerOf(Method) ==
    IF Method = "create_blueprint" THEN "ProcessCreateBlueprintCommand"
    ELSE IF Method \in {"set_property", "set_blueprint_property"} THEN "ProcessSetPropertyCommand"
    ELSE IF Method = "add_component" THEN "ProcessAddComponentCommand"
    ELSE IF Method = "compile_blueprint" THEN "ProcessCompileBlueprintCommand"
    ELSE IF Method = "get_server_status" THEN "ProcessGetServerStatusCommand"
    ELSE ""

\* UMCPClient::ProcessBlueprintCommand; the payload of a handler is named
\* after the handler
ProcessBlueprintCommand(c, Method, Params) ==
    IF ~c.BlueprintManager
    THEN [c |-> LogMessage(c, "Blueprint Manager not available for command processing",
                           "Error"),
          Response |-> "{\"success\":false,\"error\":\"Blueprint Manager not initialized\"}"]
    ELSE LET c1 == LogMessage(c, "Processing blueprint command: " \o Method, "Log")
         IN IF HandlerOf(Method) # ""
            THEN [c |-> [c1 EXCEPT !.handlerCalls =
                             Append(@, [handler |-> HandlerOf(Method), Params |-> Params])],
                  Response |-> HandlerOf(Method)]
            ELSE LET ErrorMsg == "Unknown blueprint command: " \o Method
                 IN [c |-> LogMessage(c1, "Unknown blueprint command", "Error"),
                     Response |-> "{\"success\":false,\"error\":\"" \o ErrorMsg \o "\"}"]

\* The Remove of the entry found and the "if (bFoundRequest)" block
CompleteRequest(c, Message) ==
    LET bSuccess == Message.Error = ""
        ResponseData == IF bSuccess THEN Message.Result ELSE Message.Error
    IN LogMessage([c EXCEPT !.PendingRequests = RemovePending(@, Message.Id),
                            !.events = Append(@, Broadcast("OnOperationComplete",
                                                           Message.Id, bSuccess,
                                                           ResponseData))],
                  "Received response for request", "Log")

\* "Handle responses to pending requests" of the message task
HandleResponse(c, Message) ==
    IF Message.Type = "response" /\ Message.Id # "" /\ Message.Id \in DOMAIN c.PendingRequests
    THEN CompleteRequest(c, Message)
    ELSE c

\* "Handle blueprint commands automatically" of the message task
HandleCommand(c, Message) ==
    IF Message.Type = "request" /\ Message.Method # "" /\ Message.Method \in TableMethods
    THEN LET r == ProcessBlueprintCommand(c, Message.Method, Message.Params)
             c1 == IF Message.Id # ""
                   THEN SendRawMessage(r.c, WsCall("Send", Message.Id, "", r.Response)).c
                   ELSE r.c
         IN LogMessage(c1, "Processed blueprint command", "Log")
    ELSE c

\* The game-thread lambda queued by ProcessIncomingMessage
MessageTaskBody(c, Message) ==
    LET c1 == [c EXCEPT !.events = Append(@, Broadcast("OnMessageReceived",
                                                       Message.Type, TRUE, ""))]
        c2 == HandleCommand(HandleResponse(c1, Message), Message)
    IN NotifyStatusWidgets(c2, "Info", "Received")

\* The game-thread lambda queued by SetConnectionState
StateTaskBody(c, NewState, ErrorMessage) ==
    NotifyStatusWidgets(
        [c EXCEPT !.events = Append(@, Broadcast("OnConnectionStateChanged",
                                                 NewState, TRUE, ErrorMessage))],
        "Info", "Connection state")

\* One task of the game-thread queue
RunTask(c, t) ==
    IF t.kind = "msg" THEN MessageTaskBody(c, t.Message)
    ELSE IF t.kind = "log" THEN NotifyStatusWidgets(c, t.MessageLogLevel, t.LogMessage)
    ELSE StateTaskBody(c, t.NewState, t.ErrorMessage)

\* TArray::AddUnique
AddUnique(a, x) == IF \E i \in 1..Len(a) : a[i] = x THEN a ELSE Append(a, x)

\* The null TSharedPtr<SMCPStatusWidget>
NullWidget == "null"

\* UMCPClient::RegisterStatusWidget
RegisterStatusWidget(c, StatusWidget) ==
    IF StatusWidget # NullWidget
    THEN LogMessage([c EXCEPT !.RegisteredStatusWidgets = AddUnique(@, StatusWidget)],
                    "Status widget registered for MCP updates", "Log")
    ELSE c

\* The predicate of the RemoveAll of UnregisterStatusWidget
Unregistered(Widget, StatusWidget) ==
    Widget \notin ValidWidgets \/ Widget = StatusWidget

KeepsRegistration(Widget, StatusWidget) == ~Unregistered(Widget, StatusWidget)

\* UMCPClient::UnregisterStatusWidget
UnregisterStatusWidget(c, StatusWidget) ==
    LET Keep(Widget) == KeepsRegistration(Widget, StatusWidget)
    IN LogMessage([c EXCEPT !.RegisteredStatusWidgets = SelectSeq(@, Keep)],
                  "Status widget unregistered from MCP updates", "Log")

\* UMCPClient::ClearLastError
ClearLastError(c) == [c EXCEPT !.LastErrorMessage = ""]

\* ------------------------------------------------------------------ inputs

InboundMessages ==
    {MalformedJson,
     Json(JString("req_1"), JAbsent, JAbsent, JObject("R"), JAbsent),
     Json(JString("req_2"), JAbsent, JAbsent, JAbsent, JObject("X")),
     Json(JString("req_1"), JString("create_blueprint"), JObject("P"), JAbsent, JAbsent)}

CloseReasons == {"E1"}

BoolStr(b) == IF b THEN "true" ELSE "false"

\* The OnOperationComplete broadcasts and the messages sent by one call
Completions(c) == {k \in 1..Len(c.events) : c.events[k].delegate = "OnOperationComplete"}
Sends(c) == {k \in 1..Len(c.io) : c.io[k].op = "Send"}

\* What lastCall keeps of a Disconnect and of a game-thread task
DisconnectLabel(c, bGraceful) ==
    "Disconnect_" \o BoolStr(bGraceful) \o (IF Sends(c) # {} THEN "_sent" ELSE "")

TaskLabel(c) ==
    IF Completions(c) # {} THEN "GameThreadTask_completed"
    ELSE IF c.handlerCalls # <<>> THEN "GameThreadTask_command"
    ELSE "GameThreadTask"

\* ------------------------------------------------------------- the machine

\* The status widgets there are
Widgets == {"w1", "w2"}

\* Nothing was delivered
NoDelivery == [bIsInGameThread |-> TRUE, notified |-> FALSE, widgetCalls |-> <<>>,
               delegates |-> <<>>, removed |-> {}]

\* The widgets an array of references refers to
Referenced(a) == {a[i] : i \in 1..Len(a)}

\* What a call delivered: the thread it ran on, whether NotifyStatusWidgets
\* ran on the game thread, the calls on widgets, the delegates broadcast and
\* the references removed from the array
DeliveryOf(c) ==
    [bIsInGameThread |-> c.bIsInGameThread,
     notified |-> c.bIsInGameThread /\ c.logs # <<>>,
     widgetCalls |-> c.widgetCalls,
     delegates |-> [k \in 1..Len(c.events) |-> c.events[k].delegate],
     removed |-> Referenced(RegisteredStatusWidgets) \ Referenced(c.RegisteredStatusWidgets)]

\* The object as a call made on the given thread sees it
OnThread(bInGameThread) == [Self EXCEPT !.bIsInGameThread = bInGameThread]

\* The object as a transport event handler sees it
Transport == [Self EXCEPT !.bIsInGameThread = TransportOnGameThread]

\* Nothing was done outside
NoEffects == [io |-> <<>>, events |-> <<>>, handlerCalls |-> <<>>, logs |-> <<>>, ret |-> ""]

\* No Disconnect() is in progress. Otherwise pc names the statement of
\* Disconnect() that ran last and event the close or error handler that ran
\* since the call began.
NoDisconnect == [pc |-> "idle", bGraceful |-> FALSE, event |-> ""]

\* No SendRequest() is in progress on a thread of its own. Otherwise pc names
\* the statement that ran last, and bReplaced tells that the Add replaced an
\* entry the map already had under the id.
NoSendRequest == [pc |-> "idle", Method |-> "", ActualRequestId |-> "", bReplaced |-> FALSE]

\* The game thread is not inside the task of a message. Otherwise pc names
\* the statement that ran last, Message is the message of the task and
\* bFoundRequest the outcome of the Find.
NoTask == [pc |-> "idle", Message |-> NoMessage, bFoundRequest |-> FALSE]

\* Mutant: a lock that does not wait
CanLockAlways(mutex) == TRUE

\* FScopeLock on RequestsMutex: the constructor returns when no context holds
\* the lock
CanLock(mutex) == mutex = ""

\* The labels lastCall keeps of a game-thread task
TaskCalls == {"GameThreadTask", "GameThreadTask_completed", "GameThreadTask_command"}

\* The queued message tasks that were received on an earlier connection,
\* after a step: when a connection opens these are all the message tasks
\* queued, and the game thread runs them first
StaleTasks(name) ==
    IF name = "OnWebSocketConnected"
    THEN Cardinality({k \in 1..Len(GameThreadTasks) : GameThreadTasks[k].kind = "msg"})
    ELSE IF name \in TaskCalls /\ Head(GameThreadTasks).kind = "msg" /\ staleTasks > 0
    THEN staleTasks - 1
    ELSE staleTasks

Constructed ==
    /\ MCPSettings = FALSE
    /\ BlueprintManager = FALSE
    /\ WebSocket = "null"
    /\ CurrentConnectionState = "Disconnected"
    /\ LastErrorMessage = ""
    /\ bAutoReconnectEnabled = TRUE
    /\ ReconnectAttempts = 0
    /\ AutoReconnectTimerHandle = 0
    /\ PendingRequests = EmptyMap
    /\ RegisteredStatusWidgets = <<>>
    /\ GameThreadTasks = <<>>
    /\ World \in BOOLEAN
    /\ ValidWidgets = Widgets
    /\ lastDelivery = NoDelivery
    /\ DisconnectThread = NoDisconnect
    /\ RequestsMutex = ""
    /\ SendThread = NoSendRequest
    /\ TaskThread = NoTask
    /\ staleTasks = 0
    /\ lastCall = "UMCPClient"
    /\ staleIds = {}
    /\ cleanClosed = FALSE
    /\ freshReset = FALSE
    /\ undelivered = <<>>
    /\ lastEffects = NoEffects

\* The socket delivers its events on the game thread unless a specification
\* says otherwise
Init == Constructed /\ QueueCapacity = MaxQueue /\ TransportOnGameThread = TRUE

\* The object after a call becomes the state; the task queue is bounded.
Apply(c) ==
    /\ Len(c.GameThreadTasks) <= QueueCapacity
    /\ UNCHANGED <<QueueCapacity, ValidWidgets, TransportOnGameThread>>
    /\ RegisteredStatusWidgets' = c.RegisteredStatusWidgets
    /\ MCPSettings' = c.MCPSettings
    /\ BlueprintManager' = c.BlueprintManager
    /\ WebSocket' = c.WebSocket
    /\ CurrentConnectionState' = c.CurrentConnectionState
    /\ LastErrorMessage' = c.LastErrorMessage
    /\ bAutoReconnectEnabled' = c.bAutoReconnectEnabled
    /\ ReconnectAttempts' = c.ReconnectAttempts
    /\ AutoReconnectTimerHandle' = c.AutoReconnectTimerHandle
    /\ PendingRequests' = c.PendingRequests
    /\ GameThreadTasks' = c.GameThreadTasks

\* The call has run StartAutoReconnectTimer() up to SetTimer()
Scheduling(c) ==
    \E k \in 1..Len(c.logs) : c.logs[k].message = "Scheduling auto-reconnect"

\* The calls after which the backoff starts afresh: the transport-opened
\* event and Disconnect()
ResetCalls ==
    {"OnWebSocketConnected", "Disconnect_true", "Disconnect_true_sent", "Disconnect_false"}

\* The OnConnectionStateChanged broadcasts of one call
StateBroadcasts(c) ==
    {k \in 1..Len(c.events) : c.events[k].delegate = "OnConnectionStateChanged"}

\* The states entered and not yet broadcast, after a call
Undelivered(c) ==
    (IF StateBroadcasts(c) # {} THEN Tail(undelivered) ELSE undelivered)
        \o (IF c.CurrentConnectionState # CurrentConnectionState
            THEN <<c.CurrentConnectionState>> ELSE <<>>)

\* What a step of the message path did outside: the arrival of a message, the
\* game-thread task of a message and a direct ProcessBlueprintCommand call
EffectsOf(c, name) ==
    IF \/ name \in {"OnWebSocketMessage", "ProcessBlueprintCommand", "SendNotification",
                    "SendRawMessage"}
       \/ \E k \in 1..Len(c.events) : c.events[k].delegate = "OnMessageReceived"
    THEN [io |-> c.io, events |-> c.events, handlerCalls |-> c.handlerCalls,
          logs |-> c.logs, ret |-> c.ret]
    ELSE NoEffects

\* A call and the history it leaves. teardown: the call is a close, an error
\* or a Disconnect; registered: the ids the call registered.
Observe(c, name, teardown, registered) ==
    /\ Apply(c)
    /\ lastCall' = name
    /\ undelivered' = Undelivered(c)
    /\ lastEffects' = EffectsOf(c, name)
    /\ lastDelivery' = DeliveryOf(c)
    /\ staleTasks' = StaleTasks(name)
    /\ UNCHANGED threadVars
    /\ freshReset' = IF Scheduling(c) THEN FALSE
                     ELSE IF name \in ResetCalls THEN TRUE
                     ELSE freshReset
    /\ staleIds' =
         IF teardown /\ CurrentConnectionState = "Connected"
                     /\ c.CurrentConnectionState # "Connected"
         THEN DOMAIN c.PendingRequests
         ELSE (staleIds \ registered) \cap DOMAIN c.PendingRequests
    /\ DisconnectThread' =
         IF teardown /\ DisconnectThread.pc # "idle"
         THEN [DisconnectThread EXCEPT !.event = name]
         ELSE DisconnectThread

InitializeCall(bValid) ==
    /\ Observe(Initialize(Self, bValid).c, "Initialize", FALSE, {})
    /\ UNCHANGED <<World, cleanClosed>>

ConnectCall(bValid) ==
    /\ Observe(Connect(Self, bValid).c, "Connect", FALSE, {})
    /\ cleanClosed' = FALSE
    /\ UNCHANGED World

DisconnectCall(bGraceful) ==
    /\ Observe(Disconnect(Self, bGraceful), DisconnectLabel(Disconnect(Self, bGraceful), bGraceful),
               TRUE, {})
    /\ UNCHANGED <<World, cleanClosed>>

SetAutoReconnectEnabledCall ==
    \E bEnable \in BOOLEAN :
        /\ Observe(SetAutoReconnectEnabled(Self, bEnable), "SetAutoReconnectEnabled",
                   FALSE, {})
        /\ UNCHANGED <<World, cleanClosed>>

ClearLastErrorCall ==
    /\ LastErrorMessage # ""
    /\ Observe(ClearLastError(Self), "ClearLastError", FALSE, {})
    /\ UNCHANGED <<World, cleanClosed>>

\* SendRequest with an explicit id, or with an empty one and id the fresh id
\* GenerateRequestId makes up
SendRequestCall(Method, id, explicit) ==
    /\ explicit \/ id \notin DOMAIN PendingRequests
    /\ LET r == SendRequest(Self, Method, "{}", IF explicit THEN id ELSE "", id)
       IN Observe(r.c, "SendRequest", FALSE, IF r.ret # "" THEN {id} ELSE {})
    /\ UNCHANGED <<World, cleanClosed>>

SendNotificationCall(Method, Params) ==
    /\ LET r == SendNotification(Self, Method, Params)
       IN Observe([r.c EXCEPT !.ret = BoolStr(r.ret)], "SendNotification", FALSE, {})
    /\ UNCHANGED <<World, cleanClosed>>

\* SendRawMessage called with a text of the caller's own
SendRawMessageCall(JsonMessage) ==
    /\ LET r == SendRawMessage(Self, WsCall("Send", "", "", JsonMessage))
       IN Observe([r.c EXCEPT !.ret = BoolStr(r.ret)], "SendRawMessage", FALSE, {})
    /\ UNCHANGED <<World, cleanClosed>>

\* The socket finished its handshake
WebSocketConnected ==
    /\ WebSocket = "connecting"
    /\ Observe(OnWebSocketConnected([Transport EXCEPT !.WebSocket = "open"]),
               "OnWebSocketConnected", FALSE, {})
    /\ UNCHANGED <<World, cleanClosed>>

\* The handshake failed
WebSocketConnectionError(Error) ==
    /\ WebSocket = "connecting"
    /\ Observe(OnWebSocketConnectionError([Transport EXCEPT !.WebSocket = "idle"], Error),
               "OnWebSocketConnectionError", TRUE, {})
    /\ UNCHANGED <<World, cleanClosed>>

\* The open socket closed, cleanly or not
WebSocketClosed(Reason, bWasClean) ==
    /\ WebSocket = "open"
    /\ Observe(OnWebSocketClosed(Transport, Reason, bWasClean),
               "OnWebSocketClosed_" \o BoolStr(bWasClean), TRUE, {})
    /\ cleanClosed' = IF bWasClean /\ CurrentConnectionState = "Connected"
                      THEN TRUE ELSE cleanClosed
    /\ UNCHANGED World

\* UMCPClient::OnWebSocketMessage: a text message arrived on the open socket
WebSocketMessage(json) ==
    /\ WebSocket = "open"
    /\ Observe(OnWebSocketMessage(Transport, json), "OnWebSocketMessage", FALSE, {})
    /\ UNCHANGED <<World, cleanClosed>>

\* UMCPClient::ProcessBlueprintCommand called by the owner of the client
ProcessBlueprintCommandCall(Method, Params) ==
    /\ LET r == ProcessBlueprintCommand(Self, Method, Params)
       IN Observe([r.c EXCEPT !.ret = r.Response], "ProcessBlueprintCommand", FALSE, {})
    /\ UNCHANGED <<World, cleanClosed>>

\* RegisterStatusWidget called for a widget, on the game thread or not
RegisterStatusWidgetCall(StatusWidget, bInGameThread) ==
    /\ StatusWidget \in ValidWidgets
    /\ Observe(RegisterStatusWidget(OnThread(bInGameThread), StatusWidget),
               "RegisterStatusWidget", FALSE, {})
    /\ UNCHANGED <<World, cleanClosed>>

\* UnregisterStatusWidget called for a widget or with a null pointer
UnregisterStatusWidgetCall(StatusWidget, bInGameThread) ==
    /\ StatusWidget \in ValidWidgets \cup {NullWidget}
    /\ Observe(UnregisterStatusWidget(OnThread(bInGameThread), StatusWidget),
               "UnregisterStatusWidget", FALSE, {})
    /\ UNCHANGED <<World, cleanClosed>>

\* The last shared reference to a widget is released: the weak pointers to
\* it expire
WidgetDestroyed(Widget) ==
    /\ Widget \in ValidWidgets
    /\ ValidWidgets' = ValidWidgets \ {Widget}
    /\ lastCall' = "WidgetDestroyed"
    /\ lastDelivery' = NoDelivery
    /\ lastEffects' = NoEffects
    /\ UNCHANGED <<objVars, World, QueueCapacity, TransportOnGameThread, DisconnectThread,
                   threadVars, staleIds, cleanClosed, freshReset, undelivered, staleTasks>>

\* The object when the one-shot reconnect timer expires: FTimerManager has
\* cleared the handle and calls AttemptReconnect
TimerExpired == [Self EXCEPT !.AutoReconnectTimerHandle = 0]

TimerFires(bValid) ==
    /\ AutoReconnectTimerHandle # 0
    /\ Observe(AttemptReconnect(TimerExpired, bValid), "AttemptReconnect", FALSE, {})
    /\ UNCHANGED <<World, cleanClosed>>

\* The object when the game thread takes the oldest queued task
TaskTaken == [Self EXCEPT !.GameThreadTasks = Tail(@)]

\* The game thread runs the oldest queued task
GameThreadTick ==
    /\ GameThreadTasks # <<>>
    /\ Observe(RunTask(TaskTaken, Head(GameThreadTasks)),
               TaskLabel(RunTask(TaskTaken, Head(GameThreadTasks))), FALSE, {})
    /\ UNCHANGED <<World, cleanClosed>>

Next ==
    \/ \E bValid \in BOOLEAN : InitializeCall(bValid)
    \/ \E bValid \in BOOLEAN : ConnectCall(bValid)
    \/ \E bGraceful \in BOOLEAN : DisconnectCall(bGraceful)
    \/ SetAutoReconnectEnabledCall
    \/ ClearLastErrorCall
    \/ \E Method \in RequestMethods, id \in Ids, explicit \in BOOLEAN :
           SendRequestCall(Method, id, explicit)
    \/ WebSocketConnected
    \/ \E Error \in ErrorStrings : WebSocketConnectionError(Error)
    \/ \E Reason \in CloseReasons, bWasClean \in BOOLEAN : WebSocketClosed(Reason, bWasClean)
    \/ \E json \in InboundMessages : WebSocketMessage(json)
    \/ \E bValid \in BOOLEAN : TimerFires(bValid)
    \/ GameThreadTick

Spec == Init /\ [][Next]_vars

TypeOK ==
    /\ CurrentConnectionState \in ConnectionStates
    /\ WebSocket \in {"null", "idle", "connecting", "open"}
    /\ ReconnectAttempts \in 0..MaxReconnectAttempts
    /\ DOMAIN PendingRequests \subseteq Ids
    /\ Len(GameThreadTasks) <= QueueCapacity

\* ------------------------------------- Disconnect() on a thread of its own

\* One statement of a Disconnect() that runs while the transport delivers
\* events: the object after the statement and the statement's name
DisconnectStatement(c, pc) ==
    /\ Apply(c)
    /\ lastCall' = "Disconnect_" \o pc
    /\ staleIds' = staleIds \cap DOMAIN c.PendingRequests
    /\ freshReset' = (freshReset \/ pc = "ResetReconnectAttempts")
    /\ undelivered' = Undelivered(c)
    /\ lastEffects' = NoEffects
    /\ lastDelivery' = DeliveryOf(c)
    /\ UNCHANGED <<World, cleanClosed, staleTasks, threadVars>>

\* Disconnect() is entered and runs StopAutoReconnectTimer()
DisconnectBegins(bGraceful) ==
    /\ DisconnectThread.pc = "idle"
    /\ DisconnectStatement(StopAutoReconnectTimer(Self), "StopAutoReconnectTimer")
    /\ DisconnectThread' = [pc |-> "StopAutoReconnectTimer", bGraceful |-> bGraceful,
                            event |-> ""]

\* if (WebSocket.IsValid()) { ... WebSocket->Close(); WebSocket.Reset(); }
DisconnectCloses ==
    /\ DisconnectThread.pc = "StopAutoReconnectTimer"
    /\ DisconnectStatement(CloseWebSocket(Self, DisconnectThread.bGraceful), "Close")
    /\ DisconnectThread' = [DisconnectThread EXCEPT !.pc = "Close"]

\* { FScopeLock Lock(&RequestsMutex); PendingRequests.Empty(); }
DisconnectPurges ==
    /\ DisconnectThread.pc = "Close"
    /\ CanLock(RequestsMutex)
    /\ DisconnectStatement(PurgePending(Self), "Empty")
    /\ DisconnectThread' = [DisconnectThread EXCEPT !.pc = "Empty"]

\* SetConnectionState(EMCPConnectionState::Disconnected)
DisconnectSetsState ==
    /\ DisconnectThread.pc = "Empty"
    /\ DisconnectStatement(SetConnectionState(Self, "Disconnected", ""), "SetConnectionState")
    /\ DisconnectThread' = [DisconnectThread EXCEPT !.pc = "SetConnectionState"]

\* ResetReconnectAttempts() and the return
DisconnectReturns ==
    /\ DisconnectThread.pc = "SetConnectionState"
    /\ DisconnectStatement(ResetReconnectAttempts(Self), "ResetReconnectAttempts")
    /\ DisconnectThread' = NoDisconnect

\* The caller's thread makes one call at a time; transport events, the timer
\* and the game-thread queue run in their own contexts.
NextThreads ==
    \/ \E bValid \in BOOLEAN : DisconnectThread.pc = "idle" /\ InitializeCall(bValid)
    \/ \E bValid \in BOOLEAN : DisconnectThread.pc = "idle" /\ ConnectCall(bValid)
    \/ \E bGraceful \in BOOLEAN : DisconnectBegins(bGraceful)
    \/ DisconnectCloses
    \/ DisconnectPurges
    \/ DisconnectSetsState
    \/ DisconnectReturns
    \/ WebSocketConnected
    \/ \E Error \in ErrorStrings : WebSocketConnectionError(Error)
    \/ \E Reason \in CloseReasons, bWasClean \in BOOLEAN : WebSocketClosed(Reason, bWasClean)
    \/ \E bValid \in BOOLEAN : TimerFires(bValid)
    \/ GameThreadTick

SpecThreads == Init /\ [][NextThreads]_vars

\* ------------------------------------- the connection state and its queue

\* The connection state machine with its timer and one outstanding request,
\* no inbound traffic, and room in the game-thread queue for one more
\* notification than Spec allows
InitConnection == Constructed /\ QueueCapacity = MaxQueue + 1 /\ TransportOnGameThread = TRUE

NextConnection ==
    \/ \E bValid \in BOOLEAN : InitializeCall(bValid)
    \/ \E bValid \in BOOLEAN : ConnectCall(bValid)
    \/ \E bGraceful \in BOOLEAN : DisconnectCall(bGraceful)
    \/ SetAutoReconnectEnabledCall
    \/ \E Method \in RequestMethods : SendRequestCall(Method, "req_1", TRUE)
    \/ WebSocketConnected
    \/ \E Error \in ErrorStrings : WebSocketConnectionError(Error)
    \/ \E Reason \in CloseReasons, bWasClean \in BOOLEAN : WebSocketClosed(Reason, bWasClean)
    \/ \E bValid \in BOOLEAN : TimerFires(bValid)
    \/ GameThreadTick

SpecConnection == InitConnection /\ [][NextConnection]_vars

\* ------------------------------------------- requests and inbound messages

\* The client where no world can be resolved, so that no reconnect timer is
\* ever set: calls, requests, transport events and inbound messages
InitMessages == Init /\ ~World

NextMessages ==
    \/ \E bValid \in BOOLEAN : InitializeCall(bValid)
    \/ \E bValid \in BOOLEAN : ConnectCall(bValid)
    \/ \E bGraceful \in BOOLEAN : DisconnectCall(bGraceful)
    \/ \E Method \in RequestMethods, id \in Ids, explicit \in BOOLEAN :
           SendRequestCall(Method, id, explicit)
    \/ WebSocketConnected
    \/ \E Error \in ErrorStrings : WebSocketConnectionError(Error)
    \/ \E Reason \in CloseReasons, bWasClean \in BOOLEAN : WebSocketClosed(Reason, bWasClean)
    \/ \E json \in InboundMessages : WebSocketMessage(json)
    \/ GameThreadTick

SpecMessages == InitMessages /\ [][NextMessages]_vars

\* ------------------------------------------------------- command dispatch

\* Inbound traffic of the command path: text that is no JSON object, messages
\* with neither method, result nor error, requests for methods in and out of
\* the command table with and without params, and a notification
CommandId == "req_1"
UnknownMethod == "unknown_cmd"
InboundMethods == {"create_blueprint", "set_property", "set_blueprint_property", UnknownMethod}
InboundParams == {JObject("P"), JAbsent}

InboundCommands ==
    {MalformedJson,
     Json(JString(CommandId), JAbsent, JAbsent, JAbsent, JAbsent),
     Json(JAbsent, JAbsent, JObject("P"), JAbsent, JAbsent),
     Json(JAbsent, JString("create_blueprint"), JObject("P"), JAbsent, JAbsent)}
    \cup {Json(JString(CommandId), JString(m), p, JAbsent, JAbsent) :
              m \in InboundMethods, p \in InboundParams}

DirectMethods == InboundMethods \cup {""}
DirectParams == {"P", ""}

\* The client with no world (no reconnect timer), its connection, one request
\* of its own, inbound commands and direct ProcessBlueprintCommand calls
InitCommands == Init /\ ~World

NextCommands ==
    \/ \E bValid \in BOOLEAN : InitializeCall(bValid)
    \/ \E bValid \in BOOLEAN : ConnectCall(bValid)
    \/ DisconnectCall(FALSE)
    \/ \E Method \in RequestMethods : SendRequestCall(Method, CommandId, TRUE)
    \/ WebSocketConnected
    \/ \E Reason \in CloseReasons, bWasClean \in BOOLEAN : WebSocketClosed(Reason, bWasClean)
    \/ \E json \in InboundCommands : WebSocketMessage(json)
    \/ \E Method \in DirectMethods, Params \in DirectParams :
           ProcessBlueprintCommandCall(Method, Params)
    \/ GameThreadTick

SpecCommands == InitCommands /\ [][NextCommands]_vars

\* ------------------------------------------------------- status widgets

\* The client with no world, connecting once, with the socket delivering its
\* events on or off the game thread, and status widgets that register (from
\* any thread), unregister and are destroyed; an event handled off the game
\* thread queues up to three tasks
InitWidgets ==
    /\ Constructed
    /\ ~World
    /\ QueueCapacity = MaxQueue + 2
    /\ TransportOnGameThread \in BOOLEAN

WidgetMessages == {Json(JString(CommandId), JAbsent, JAbsent, JAbsent, JAbsent)}

NextWidgets ==
    \/ InitializeCall(TRUE)
    \/ ConnectCall(TRUE)
    \/ WebSocketConnected
    \/ \E json \in WidgetMessages : WebSocketMessage(json)
    \/ \E StatusWidget \in Widgets, bInGameThread \in BOOLEAN :
           RegisterStatusWidgetCall(StatusWidget, bInGameThread)
    \/ \E StatusWidget \in Widgets \cup {NullWidget} :
           UnregisterStatusWidgetCall(StatusWidget, TRUE)
    \/ \E Widget \in Widgets : WidgetDestroyed(Widget)
    \/ GameThreadTick

SpecWidgets == InitWidgets /\ [][NextWidgets]_vars

\* ------------------------------------------------------ payloads on the wire

\* The three shapes a params, result or error field arrives in
PayloadShapes(t) == {JObject(t), JArray(t), JString(t)}

\* Inbound traffic with every payload shape: requests for a command, and
\* responses to req_1 with a result, with an error, with both, and with a
\* result next to an empty error string
WireMessages ==
    {Json(JString(CommandId), JString("create_blueprint"), p, JAbsent, JAbsent) :
         p \in PayloadShapes("P")}
    \cup {Json(JString(CommandId), JAbsent, JAbsent, r, JAbsent) : r \in PayloadShapes("R")}
    \cup {Json(JString(CommandId), JAbsent, JAbsent, JAbsent, e) : e \in PayloadShapes("X")}
    \cup {Json(JString(CommandId), JAbsent, JAbsent, JObject("R"), JObject("X")),
          Json(JString(CommandId), JAbsent, JAbsent, JObject("R"), JString(""))}

\* The client with no world, its connection, the request req_1 and the
\* inbound traffic above
NextWire ==
    \/ InitializeCall(TRUE)
    \/ ConnectCall(TRUE)
    \/ WebSocketConnected
    \/ \E Reason \in CloseReasons : WebSocketClosed(Reason, TRUE)
    \/ \E Method \in RequestMethods : SendRequestCall(Method, CommandId, TRUE)
    \/ \E json \in WireMessages : WebSocketMessage(json)
    \/ GameThreadTick

SpecWire == InitMessages /\ [][NextWire]_vars

\* ------------------------------------------------------------ the send path

NotificationMethods == {"progress"}
RawTexts == {"raw"}

\* The client with no world, its connection and the three send calls, made
\* in every connection state
NextSend ==
    \/ \E bValid \in BOOLEAN : InitializeCall(bValid)
    \/ \E bValid \in BOOLEAN : ConnectCall(bValid)
    \/ \E bGraceful \in BOOLEAN : DisconnectCall(bGraceful)
    \/ \E Method \in RequestMethods, id \in Ids, explicit \in BOOLEAN :
           SendRequestCall(Method, id, explicit)
    \/ \E Method \in NotificationMethods : SendNotificationCall(Method, "{}")
    \/ \E JsonMessage \in RawTexts : SendRawMessageCall(JsonMessage)
    \/ WebSocketConnected
    \/ \E Error \in ErrorStrings : WebSocketConnectionError(Error)
    \/ \E Reason \in CloseReasons, bWasClean \in BOOLEAN : WebSocketClosed(Reason, bWasClean)
    \/ GameThreadTick

SpecSend == InitMessages /\ [][NextSend]_vars

\* ------------------------------------------------------ encode, then decode

\* The payload texts of a message: JSON objects and arrays as the writer
\* prints them and with other white space, and a text that is no JSON
PayloadTexts == {"P", Spaced("P"), "A", Spaced("A"), "text"}

\* FMCPMessage(Id, Type, Method) with its payload members
FMCPMessage(Id, Type, Method, Params, Result, Error) ==
    [Id |-> Id, Type |-> Type, Method |-> Method, Params |-> Params,
     Result |-> Result, Error |-> Error]

\* The valid messages: requests with id and method, notifications with a
\* method and no id, responses with an id and either a result or an error
ValidMessages ==
    {FMCPMessage(Id, "request", Method, Params, "", "") :
         Id \in Ids, Method \in RequestMethods, Params \in PayloadTexts \cup {""}}
    \cup {FMCPMessage("", "notification", Method, Params, "", "") :
              Method \in RequestMethods, Params \in PayloadTexts \cup {""}}
    \cup {FMCPMessage(Id, "response", "", "", Result, "") : Id \in Ids, Result \in PayloadTexts}
    \cup {FMCPMessage(Id, "response", "", "", "", Error) : Id \in Ids, Error \in PayloadTexts}

\* The peer sends the text CreateJsonFromMCPMessage makes of a message
PeerEchoes(Message) == WebSocketMessage(CreateJsonFromMCPMessage(Message))

\* The connected client and a peer that runs the same encoder
NextCodec ==
    \/ InitializeCall(TRUE)
    \/ ConnectCall(TRUE)
    \/ WebSocketConnected
    \/ \E Message \in ValidMessages : PeerEchoes(Message)
    \/ GameThreadTick

SpecCodec == InitMessages /\ [][NextCodec]_vars

\* ------------------------------------------ messages across a reconnect

\* The client with no world and a game thread that lets a message task and
\* the notifications of a reconnect queue up behind it
InitReconnect ==
    Constructed /\ ~World /\ QueueCapacity = MaxQueue + 3 /\ TransportOnGameThread = TRUE

\* The connection, its end, the next one, and an inbound command
NextReconnect ==
    \/ InitializeCall(TRUE)
    \/ ConnectCall(TRUE)
    \/ WebSocketConnected
    \/ \E Reason \in CloseReasons, bWasClean \in BOOLEAN : WebSocketClosed(Reason, bWasClean)
    \/ WebSocketMessage(Json(JString(CommandId), JString("create_blueprint"), JObject("P"),
                             JAbsent, JAbsent))
    \/ GameThreadTick

SpecReconnect == InitReconnect /\ [][NextReconnect]_vars

\* ---------------------------- the pending-request map under RequestsMutex

\* One statement of a SendRequest() or of a message task that runs while the
\* other contexts run: the object after the statement and its name
Statement(c, name) ==
    /\ Apply(c)
    /\ lastCall' = name
    /\ staleIds' = staleIds \cap DOMAIN c.PendingRequests
    /\ undelivered' = Undelivered(c)
    /\ lastEffects' = [io |-> c.io, events |-> c.events, handlerCalls |-> c.handlerCalls,
                       logs |-> c.logs, ret |-> c.ret]
    /\ lastDelivery' = DeliveryOf(c)
    /\ staleTasks' = IF Len(c.GameThreadTasks) < Len(GameThreadTasks) /\ staleTasks > 0
                     THEN staleTasks - 1 ELSE staleTasks
    /\ UNCHANGED <<World, cleanClosed, freshReset, DisconnectThread>>

\* SendRequest() is entered with an id of the caller's: the IsConnected() test
SendRequestBegins(Method, RequestId) ==
    /\ SendThread.pc = "idle"
    /\ IF IsConnected(Self)
       THEN /\ Statement(Self, "SendRequest_IsConnected")
            /\ SendThread' = [pc |-> "IsConnected", Method |-> Method,
                              ActualRequestId |-> RequestId, bReplaced |-> FALSE]
       ELSE /\ Statement(SendRequest(Self, Method, "{}", RequestId, RequestId).c,
                         "SendRequest_rejected")
            /\ SendThread' = NoSendRequest
    /\ UNCHANGED <<RequestsMutex, TaskThread>>

\* FScopeLock Lock(&RequestsMutex), before the Add and before the Remove
SendRequestLocks ==
    /\ SendThread.pc \in {"IsConnected", "SendFailed"}
    /\ CanLock(RequestsMutex)
    /\ Statement(Self, "SendRequest_Lock")
    /\ RequestsMutex' = "SendRequest"
    /\ SendThread' = [SendThread EXCEPT
                          !.pc = IF @ = "IsConnected" THEN "LockAdd" ELSE "LockRemove"]
    /\ UNCHANGED TaskThread

\* PendingRequests.Add(ActualRequestId, Message) and the end of the lock's scope
SendRequestAdds ==
    /\ SendThread.pc = "LockAdd"
    /\ Statement([Self EXCEPT !.PendingRequests =
                      AddPending(@, SendThread.ActualRequestId, SendThread.Method)],
                 "SendRequest_Add")
    /\ RequestsMutex' = ""
    /\ SendThread' = [SendThread EXCEPT
                          !.pc = "Add",
                          !.bReplaced = SendThread.ActualRequestId \in DOMAIN PendingRequests]
    /\ UNCHANGED TaskThread

\* SendRawMessage(JsonMessage) and, when it succeeds, the return of the id
SendRequestWrites ==
    /\ SendThread.pc = "Add"
    /\ LET r == SendRawMessage(Self, WsCall("Send", SendThread.ActualRequestId,
                                            SendThread.Method, "{}"))
       IN IF r.ret
          THEN /\ Statement([LogMessage(r.c, "Sent MCP request", "Log")
                                EXCEPT !.ret = SendThread.ActualRequestId],
                            "SendRequest_sent")
               /\ SendThread' = NoSendRequest
          ELSE /\ Statement(r.c, "SendRequest_SendFailed")
               /\ SendThread' = [SendThread EXCEPT !.pc = "SendFailed"]
    /\ UNCHANGED <<RequestsMutex, TaskThread>>

\* PendingRequests.Remove(ActualRequestId), the end of the lock's scope and
\* the return of the empty string
SendRequestRemoves ==
    /\ SendThread.pc = "LockRemove"
    /\ Statement(LogMessage([Self EXCEPT !.PendingRequests =
                                 RemovePending(@, SendThread.ActualRequestId)],
                            "Failed to send MCP request", "Error"),
                 "SendRequest_failed")
    /\ RequestsMutex' = ""
    /\ SendThread' = NoSendRequest
    /\ UNCHANGED TaskThread

\* The game thread takes the task of a response, broadcasts OnMessageReceived
\* and locks RequestsMutex
TaskLocks ==
    /\ TaskThread.pc = "idle"
    /\ GameThreadTasks # <<>>
    /\ Head(GameThreadTasks).kind = "msg"
    /\ Head(GameThreadTasks).Message.Type = "response"
    /\ Head(GameThreadTasks).Message.Id # ""
    /\ CanLock(RequestsMutex)
    /\ Statement([TaskTaken EXCEPT !.events =
                      Append(@, Broadcast("OnMessageReceived", "response", TRUE, ""))],
                 "GameThreadTask_Lock")
    /\ RequestsMutex' = "GameThreadTask"
    /\ TaskThread' = [pc |-> "Lock", Message |-> Head(GameThreadTasks).Message,
                      bFoundRequest |-> FALSE]
    /\ UNCHANGED SendThread

\* PendingRequests.Find(Message.Id)
TaskFinds ==
    /\ TaskThread.pc = "Lock"
    /\ Statement(Self, "GameThreadTask_Find")
    /\ TaskThread' = [TaskThread EXCEPT
                          !.pc = "Find",
                          !.bFoundRequest = TaskThread.Message.Id \in DOMAIN PendingRequests]
    /\ UNCHANGED <<RequestsMutex, SendThread>>

\* PendingRequests.Remove(Message.Id) when the entry was found, the end of
\* the lock's scope and the rest of the task
TaskRemoves ==
    /\ TaskThread.pc = "Find"
    /\ LET c == IF TaskThread.bFoundRequest
                THEN CompleteRequest(Self, TaskThread.Message) ELSE Self
       IN Statement(NotifyStatusWidgets(HandleCommand(c, TaskThread.Message),
                                        "Info", "Received"),
                    IF TaskThread.bFoundRequest
                    THEN "GameThreadTask_completed" ELSE "GameThreadTask")
    /\ RequestsMutex' = ""
    /\ TaskThread' = NoTask
    /\ UNCHANGED SendThread

\* A SendRequest() on a thread of its own, a Disconnect() on another, the
\* socket delivering responses, and the game thread
NextMutex ==
    \/ InitializeCall(TRUE)
    \/ ConnectCall(TRUE)
    \/ WebSocketConnected
    \/ \E Method \in RequestMethods, RequestId \in Ids : SendRequestBegins(Method, RequestId)
    \/ SendRequestLocks
    \/ SendRequestAdds
    \/ SendRequestWrites
    \/ SendRequestRemoves
    \/ WebSocketMessage(Json(JString("req_1"), JAbsent, JAbsent, JObject("R"), JAbsent))
    \/ TaskLocks
    \/ TaskFinds
    \/ TaskRemoves
    \/ (TaskThread.pc = "idle" /\ GameThreadTasks # <<>>
            /\ Head(GameThreadTasks).kind # "msg" /\ GameThreadTick)
    \/ DisconnectBegins(FALSE)
    \/ DisconnectCloses
    \/ DisconnectPurges
    \/ DisconnectSetsState
    \/ DisconnectReturns

SpecMutex == InitMessages /\ [][NextMutex]_vars

\* ------------------------------------------------------------------ claims

TeardownCalls ==
    {"OnWebSocketClosed_true", "OnWebSocketClosed_false", "OnWebSocketConnectionError",
     "Disconnect_true", "Disconnect_true_sent", "Disconnect_false"}

\* C1: every transition of the connection state into Disconnected or Failed
\* made by a close, a transport error or a Disconnect leaves the
\* pending-request map empty.
C1_PendingEmptyAfterTeardown ==
    [][(/\ lastCall' \in TeardownCalls
        /\ CurrentConnectionState' # CurrentConnectionState
        /\ CurrentConnectionState' \in {"Disconnected", "Failed"})
       => DOMAIN PendingRequests' = {}]_vars

\* C2: once the state has left Connected by a close, an error or a Disconnect,
\* a response carrying the id of a request sent before never fires
\* OnOperationComplete.
C2_NoCompletionAcrossReconnect ==
    [][(lastCall' = "GameThreadTask_completed")
       => LET c == RunTask(TaskTaken, Head(GameThreadTasks))
          IN \A k \in Completions(c) : c.events[k].id \notin staleIds]_vars

\* C3: OnOperationComplete fires at most once per registered request id: a
\* response whose id is pending fires it exactly once and removes the entry, a
\* response whose id is not pending fires nothing and changes nothing, and
\* only SendRequest creates entries.
C3_CompletionAtMostOnce ==
    [][/\ (lastCall' \in {"GameThreadTask", "GameThreadTask_completed", "GameThreadTask_command"}
           /\ Head(GameThreadTasks).kind = "msg"
           /\ Head(GameThreadTasks).Message.Type = "response")
          => LET id == Head(GameThreadTasks).Message.Id
                 c == RunTask(TaskTaken, Head(GameThreadTasks))
             IN IF id \in DOMAIN PendingRequests
                THEN /\ Cardinality(Completions(c)) = 1
                     /\ \A k \in Completions(c) : c.events[k].id = id
                     /\ DOMAIN PendingRequests' = DOMAIN PendingRequests \ {id}
                ELSE /\ Completions(c) = {}
                     /\ c.io = <<>>
                     /\ UNCHANGED <<PendingRequests, CurrentConnectionState, WebSocket,
                                    ReconnectAttempts, AutoReconnectTimerHandle,
                                    LastErrorMessage>>
       /\ (~(DOMAIN PendingRequests' \subseteq DOMAIN PendingRequests))
          => lastCall' = "SendRequest"]_vars

\* C3 witness: a response has just completed request req_1
C3_Witness ==
    /\ lastCall = "GameThreadTask_completed"
    /\ "req_1" \notin DOMAIN PendingRequests
    /\ CurrentConnectionState = "Connected"

\* C4: Connect() on an initialized client in state Disconnected with valid
\* settings returns true with the state Connecting and the handshake still
\* running; the state becomes Connected only by the transport-opened event,
\* and then the reconnect-attempt counter is 0.
C4_ConnectThenConnected ==
    [][/\ (/\ MCPSettings
           /\ CurrentConnectionState = "Disconnected"
           /\ lastCall' = "Connect"
           /\ ConnectCall(TRUE))
          => /\ Connect(Self, TRUE).ret
             /\ CurrentConnectionState' = "Connecting"
             /\ (WebSocket # "open" => WebSocket' = "connecting")
       /\ (CurrentConnectionState' = "Connected" /\ CurrentConnectionState # "Connected")
          => /\ lastCall' = "OnWebSocketConnected"
             /\ ReconnectAttempts' = 0]_vars

\* C4 witness: the transport-opened event has just made the state Connected
C4_Witness ==
    /\ lastCall = "OnWebSocketConnected"
    /\ CurrentConnectionState = "Connected"
    /\ WebSocket = "open"

\* C5: Connect() while Connecting or Connected returns true, changes no member
\* of the client, queues no state-change notification and makes no call on
\* the transport.
C5_ConnectIdempotent ==
    [][(lastCall' = "Connect" /\ CurrentConnectionState \in {"Connecting", "Connected"})
       => /\ \A bValid \in BOOLEAN :
                 Connect(Self, bValid).ret /\ Connect(Self, bValid).c.io = <<>>
          /\ UNCHANGED objVars]_vars

\* C5 witness: Connect() was called while Connecting
C5_Witness ==
    /\ lastCall = "Connect"
    /\ CurrentConnectionState = "Connecting"
    /\ GameThreadTasks = <<>>

\* C6: when connect() moves the client from Disconnected or Failed to
\* Connecting, the last-error message is empty afterwards.
C6_ErrorResetOnConnect ==
    [][(/\ lastCall' \in {"Connect", "AttemptReconnect"}
        /\ CurrentConnectionState \in {"Disconnected", "Failed"}
        /\ CurrentConnectionState' = "Connecting")
       => LastErrorMessage' = ""]_vars

\* C7: a transport error delivered while Connecting sets the state to Failed
\* and records the error message as the last error; a reconnect timer is
\* scheduled if and only if auto-reconnect is enabled and the attempt counter
\* is below the maximum.
C7_ErrorWhileConnecting ==
    [][\A Error \in ErrorStrings :
         (WebSocketConnectionError(Error) /\ CurrentConnectionState = "Connecting")
         => /\ CurrentConnectionState' = "Failed"
            /\ LastErrorMessage' = Error
            /\ (AutoReconnectTimerHandle' # 0) <=>
                   (bAutoReconnectEnabled /\ ReconnectAttempts < MaxReconnectAttempts)]_vars

\* C8: an unclean close delivered while Connected sets the state to Failed,
\* and a reconnect timer is outstanding afterwards exactly when auto-reconnect
\* is enabled and the attempt counter is below the maximum.
C8_UncleanCloseWhileConnected ==
    [][(lastCall' = "OnWebSocketClosed_false" /\ CurrentConnectionState = "Connected")
       => /\ CurrentConnectionState' = "Failed"
          /\ (AutoReconnectTimerHandle' # 0) <=>
                 (bAutoReconnectEnabled /\ ReconnectAttempts < MaxReconnectAttempts)]_vars

\* C9: a clean close delivered while Connected sets the state to Disconnected,
\* and the state does not become Connecting afterwards until connect() is
\* called explicitly.
C9_NoReconnectAfterCleanClose ==
    [][/\ (lastCall' = "OnWebSocketClosed_true" /\ CurrentConnectionState = "Connected")
          => CurrentConnectionState' = "Disconnected"
       /\ cleanClosed' => CurrentConnectionState' # "Connecting"]_vars

\* C10: Disconnect(true) while Connected sends exactly one session/end
\* notification and then closes the transport, and ends with state
\* Disconnected, no transport handle, an empty pending-request map and the
\* reconnect counter at 0.
C10_GracefulDisconnect ==
    [][(lastCall' \in {"Disconnect_true", "Disconnect_true_sent"}
        /\ CurrentConnectionState = "Connected")
       => /\ Disconnect(Self, TRUE).io =
                 <<WsCall("Send", "", "session/end", "{}"), WsCall("Close", "", "", "")>>
          /\ CurrentConnectionState' = "Disconnected"
          /\ WebSocket' = "null"
          /\ DOMAIN PendingRequests' = {}
          /\ ReconnectAttempts' = 0]_vars

\* C10 witness: a graceful Disconnect that sent session/end has just returned
C10_Witness ==
    /\ lastCall = "Disconnect_true_sent"
    /\ CurrentConnectionState = "Disconnected"
    /\ WebSocket = "null"

\* C11: from every connection state Disconnect(false) ends with state
\* Disconnected, no transport handle, an empty pending-request map and no
\* reconnect timer outstanding, and sends no session/end notification;
\* Disconnect(true) sends none either when the state is not Connected.
C11_ForcedDisconnect ==
    [][/\ (lastCall' \in {"Disconnect_false", "Disconnect_false_sent"})
          => /\ CurrentConnectionState' = "Disconnected"
             /\ WebSocket' = "null"
             /\ DOMAIN PendingRequests' = {}
             /\ AutoReconnectTimerHandle' = 0
             /\ Sends(Disconnect(Self, FALSE)) = {}
       /\ (lastCall' \in {"Disconnect_true", "Disconnect_true_sent"}
           /\ CurrentConnectionState # "Connected")
          => Sends(Disconnect(Self, TRUE)) = {}]_vars

\* C11 witness: Disconnect(false) has just left a state other than
\* Disconnected (its state notification is queued) where a world exists to
\* hold a reconnect timer and an earlier failure left its error message
C11_Witness ==
    /\ lastCall = "Disconnect_false"
    /\ World
    /\ LastErrorMessage = "E1"
    /\ GameThreadTasks = <<StateTask("Disconnected", "")>>
    /\ AutoReconnectTimerHandle = 0

\* C12: when a transport close or error event is delivered while Disconnect()
\* runs, then once both have finished the state is Disconnected and no
\* reconnect timer is outstanding.
C12_DisconnectRacesEvent ==
    [][(/\ DisconnectThread.pc = "SetConnectionState"
        /\ DisconnectThread'.pc = "idle"
        /\ DisconnectThread.event # "")
       => /\ CurrentConnectionState' = "Disconnected"
          /\ AutoReconnectTimerHandle' = 0]_vars

\* The timer has fired in state Failed with the counter below the maximum
TimerFiredInFailed ==
    /\ CurrentConnectionState = "Failed"
    /\ ReconnectAttempts < MaxReconnectAttempts
    /\ lastCall' = "AttemptReconnect"

\* The attempt counter grows only in AttemptReconnect, and by one
CountedOnlyByAttemptReconnect ==
    ReconnectAttempts' > ReconnectAttempts
        => /\ lastCall' = "AttemptReconnect"
           /\ ReconnectAttempts' = ReconnectAttempts + 1

RetriesExhausted ==
    /\ CurrentConnectionState = "Failed"
    /\ ReconnectAttempts = MaxReconnectAttempts

\* The calls of the caller that set the connection state
CallerCalls ==
    {"Connect", "Initialize", "Disconnect_true", "Disconnect_true_sent", "Disconnect_false"}

\* C14: after MaxReconnectAttempts consecutive failed automatic reconnect
\* attempts the state is Failed, no reconnect timer is outstanding, and the
\* state does not change until the caller calls connect() or disconnect().
C14_ExhaustedIsTerminal ==
    [][/\ RetriesExhausted' => AutoReconnectTimerHandle' = 0
       /\ (RetriesExhausted /\ lastCall' \notin CallerCalls)
          => CurrentConnectionState' = "Failed"]_vars

\* C15: the cap on automatic reconnect attempts is the max-reconnect-attempts
\* value of the settings: the attempts counted since the last successful
\* connection never exceed UMCPSettings::MaxReconnectAttempts.
C15_CapIsSettingsValue == ReconnectAttempts <= SettingsMaxReconnectAttempts

\* The Error-level notifications of one call
ErrorsNotified(c) ==
    {c.logs[k].message : k \in {j \in 1..Len(c.logs) : c.logs[j].level = "Error"}}

\* C16: when the attempt that brings the counter to the maximum fails, the
\* failing call notifies the observers at Error level that the maximum
\* number of reconnection attempts was reached, and that text becomes the
\* last error message.
C16_TerminalErrorSurfaced ==
    [][(RetriesExhausted' /\ ~RetriesExhausted)
       => /\ LastErrorMessage' = MaxAttemptsError
          /\ \A Error \in ErrorStrings :
                WebSocketConnectionError(Error)
                => MaxAttemptsLog \in ErrorsNotified(
                       OnWebSocketConnectionError([Self EXCEPT !.WebSocket = "idle"], Error))
          /\ \A bValid \in BOOLEAN :
                TimerFires(bValid)
                => MaxAttemptsLog \in ErrorsNotified(AttemptReconnect(TimerExpired, bValid))]_vars

\* The step schedules a reconnect timer
TimerScheduled ==
    \/ /\ lastCall' = "OnWebSocketConnectionError"
       /\ Scheduling(OnWebSocketConnectionError([Self EXCEPT !.WebSocket = "idle"], ""))
    \/ /\ lastCall' = "OnWebSocketClosed_false"
       /\ Scheduling(OnWebSocketClosed(Self, "", FALSE))
    \/ /\ lastCall' = "AttemptReconnect"
       /\ AutoReconnectTimerHandle' # 0

\* The delays of the specification for n = 0..7
DelayTable == <<2, 4, 8, 16, 32, 60, 60, 60>>

\* The state after the first retry scheduled since a successful connection
\* or a Disconnect() has a timer with the delay of n = 0
FirstRetryUsesBaseDelay ==
    (freshReset /\ ~freshReset') => AutoReconnectTimerHandle' = DelayTable[1]

\* The delay of a timer scheduled with the counter at n
DelayFollowsCounter ==
    TimerScheduled
        => AutoReconnectTimerHandle' =
               IF ReconnectAttempts' <= 7 THEN DelayTable[ReconnectAttempts' + 1]
               ELSE MaxReconnectDelay

\* C17: a reconnect timer scheduled when the attempt counter is n has the
\* delay min(2 * 2^n, 60): 2, 4, 8, 16, 32, 60, 60, 60 for n = 0..7; the
\* first retry scheduled after a successful connection or an explicit
\* disconnect uses the delay for n = 0.
C17_BackoffDelays == [][DelayFollowsCounter /\ FirstRetryUsesBaseDelay]_vars

\* C18: the reconnect-attempt counter is 0 whenever the state is Connected,
\* and is 0 when a Disconnect() call has just returned.
C18_CounterZero ==
    /\ CurrentConnectionState = "Connected" => ReconnectAttempts = 0
    /\ lastCall \in {"Disconnect_true", "Disconnect_true_sent", "Disconnect_false"}
          => ReconnectAttempts = 0

\* C18 witness: a reconnect timer left by an earlier failure has fired while
\* Connected and the counter is still 0
C18_Witness ==
    /\ lastCall = "AttemptReconnect"
    /\ CurrentConnectionState = "Connected"
    /\ ReconnectAttempts = 0
    /\ LastErrorMessage = "E1"

\* The states carried by the state-change notifications of a queue, in order
QueuedStates(q) ==
    LET st == SelectSeq(q, LAMBDA t : t.kind = "state")
    IN [k \in 1..Len(st) |-> st[k].NewState]

\* A step that changes the connection state appends exactly one notification,
\* which carries the new state; a step that does not change it adds none
OneNotificationPerChange ==
    IF CurrentConnectionState' # CurrentConnectionState
    THEN /\ Len(GameThreadTasks') = Len(GameThreadTasks) + 1
         /\ SubSeq(GameThreadTasks', 1, Len(GameThreadTasks)) = GameThreadTasks
         /\ GameThreadTasks'[Len(GameThreadTasks')].kind = "state"
         /\ GameThreadTasks'[Len(GameThreadTasks')].NewState = CurrentConnectionState'
    ELSE Len(QueuedStates(GameThreadTasks')) <= Len(QueuedStates(GameThreadTasks))

\* The notifications queued are those of the states entered and not yet
\* broadcast, in the order they were entered, and the game thread broadcasts
\* the oldest of them
DeliveredInOrder ==
    /\ QueuedStates(GameThreadTasks') = undelivered'
    /\ (lastCall' = "GameThreadTask" /\ Head(GameThreadTasks).kind = "state")
          => LET c == RunTask(TaskTaken, Head(GameThreadTasks))
             IN /\ Cardinality(StateBroadcasts(c)) = 1
                /\ \A k \in StateBroadcasts(c) : c.events[k].id = Head(undelivered)

\* SetConnectionState with the current state changes nothing
SameStateIsSilent ==
    \A e \in ErrorStrings \cup {MaxAttemptsError} :
        SetConnectionState(Self, CurrentConnectionState, e) = Self

\* C19: every call that changes the connection state has updated the current
\* state when it returns and has queued exactly one state-change
\* notification carrying the new state; the notifications reach the delegate
\* in the order of the transitions; setting the state to its current value
\* queues no notification and changes nothing.
C19_StateChangeNotification ==
    [][OneNotificationPerChange /\ DeliveredInOrder /\ SameStateIsSilent]_vars

\* C19 witness: two transitions are waiting to be broadcast, Connecting and
\* then Failed
C19_Witness ==
    /\ GameThreadTasks = <<StateTask("Connecting", ""), StateTask("Failed", "E1")>>
    /\ CurrentConnectionState = "Failed"
    /\ undelivered = <<"Connecting", "Failed">>

\* C20: Connect() on an initialized client whose settings do not validate
\* returns false and leaves the connection state as it was.
C20_ValidationErrorKeepsState ==
    [][(/\ MCPSettings
        /\ ~AlreadyConnectedOrConnecting(Self)
        /\ lastCall' = "Connect"
        /\ ConnectCall(FALSE))
       => /\ ~Connect(Self, FALSE).ret
          /\ CurrentConnectionState' = CurrentConnectionState]_vars

\* The entry LogMessage hands on for text that does not parse
ParseFailureLog == [level |-> "Error", message |-> "Failed to parse incoming MCP message"]

\* C21: an inbound text message that is no valid JSON is logged at Error level
\* and dropped: nothing is queued for it, the connection state, the transport
\* handle, the pending-request map and the reconnect counter stay as they
\* are, no delegate fires, no command handler runs and nothing is sent.
C21_MalformedDropped ==
    [][\A json \in InboundCommands :
         (lastCall' = "OnWebSocketMessage" /\ ~json.valid /\ WebSocketMessage(json))
         => LET c == OnWebSocketMessage(Self, json)
            IN /\ \E k \in 1..Len(c.logs) : c.logs[k] = ParseFailureLog
               /\ c.events = <<>>
               /\ c.handlerCalls = <<>>
               /\ c.io = <<>>
               /\ UNCHANGED <<GameThreadTasks, CurrentConnectionState, WebSocket,
                              PendingRequests, ReconnectAttempts, LastErrorMessage,
                              AutoReconnectTimerHandle>>]_vars

\* C21 witness: malformed text has just arrived on a Connected client
C21_Witness ==
    /\ lastCall = "OnWebSocketMessage"
    /\ lastEffects.logs = <<[level |-> "Info", message |-> "Received WebSocket message"],
                            ParseFailureLog>>
    /\ CurrentConnectionState = "Connected"
    /\ WebSocket = "open"
    /\ GameThreadTasks = <<>>

\* The game thread is about to run the task of a message of the given type
MessageTaskOfType(Type) ==
    /\ GameThreadTasks # <<>>
    /\ Head(GameThreadTasks).kind = "msg"
    /\ Head(GameThreadTasks).Message.Type = Type

\* C22: an inbound message with neither method, result nor error is of type
\* unknown, and neither its arrival nor its game-thread task fires
\* OnOperationComplete, runs a command handler, removes a pending entry or
\* sends anything.
C22_UnknownNotRouted ==
    [][/\ \A json \in InboundCommands :
            (/\ lastCall' = "OnWebSocketMessage"
             /\ json.valid /\ ~HasField(json.method) /\ ~HasField(json.result)
             /\ ~HasField(json.error)
             /\ WebSocketMessage(json))
            => LET c == OnWebSocketMessage(Self, json)
               IN /\ c.GameThreadTasks[Len(c.GameThreadTasks)].Message.Type = "unknown"
                  /\ c.events = <<>> /\ c.handlerCalls = <<>> /\ c.io = <<>>
                  /\ UNCHANGED PendingRequests
       /\ (lastCall' \in TaskCalls /\ MessageTaskOfType("unknown"))
            => LET c == RunTask(TaskTaken, Head(GameThreadTasks))
               IN /\ Completions(c) = {}
                  /\ c.handlerCalls = <<>>
                  /\ c.io = <<>>
                  /\ UNCHANGED PendingRequests]_vars

\* C22 witness: the task of an unknown message has run while a request with
\* the id the message carried was pending
C22_Witness ==
    /\ lastCall = "GameThreadTask"
    /\ lastEffects.events = <<Broadcast("OnMessageReceived", "unknown", TRUE, "")>>
    /\ CommandId \in DOMAIN PendingRequests
    /\ CurrentConnectionState = "Connected"

\* The game thread is about to run the task of a request for a method of the
\* command table, in state Connected
TableRequestWhileConnected ==
    /\ MessageTaskOfType("request")
    /\ Head(GameThreadTasks).Message.Method \in TableMethods
    /\ CurrentConnectionState = "Connected"

\* Exactly one message is sent by the call, a response carrying the id
OneResponseWithId(c, Id) ==
    /\ Cardinality(Sends(c)) = 1
    /\ \A k \in Sends(c) : c.io[k].id = Id /\ c.io[k].method = ""

\* C23: an inbound request with an id for a method of the command
\* table, processed in state Connected, runs the handler exactly once and
\* sends exactly one response, which carries the id of the request.
C23_CommandAnsweredOnce ==
    [][(lastCall' \in TaskCalls /\ TableRequestWhileConnected)
       => LET Message == Head(GameThreadTasks).Message
              c == RunTask(TaskTaken, Head(GameThreadTasks))
          IN /\ c.handlerCalls = <<[handler |-> HandlerOf(Message.Method),
                                    Params |-> Message.Params]>>
             /\ OneResponseWithId(c, Message.Id)]_vars

\* C24: an inbound message with a method of the command table and no id (a
\* notification) has its handler run exactly once, with the params it
\* carried, and nothing is sent for it.
C24_NotificationExecuted ==
    [][(/\ lastCall' \in TaskCalls
        /\ MessageTaskOfType("notification")
        /\ Head(GameThreadTasks).Message.Method \in TableMethods
        /\ BlueprintManager)
       => LET Message == Head(GameThreadTasks).Message
              c == RunTask(TaskTaken, Head(GameThreadTasks))
          IN /\ c.handlerCalls = <<[handler |-> HandlerOf(Message.Method),
                                    Params |-> Message.Params]>>
             /\ Sends(c) = {}]_vars

\* C25: an inbound request with an id whose method is not in the command
\* table, processed in state Connected (here with a Blueprint Manager), is
\* answered by one response that carries its id and an error payload, and the
\* state stays Connected.
C25_UnknownMethodAnswered ==
    [][(/\ lastCall' \in TaskCalls
        /\ MessageTaskOfType("request")
        /\ Head(GameThreadTasks).Message.Method \notin TableMethods
        /\ CurrentConnectionState = "Connected"
        /\ BlueprintManager)
       => LET Message == Head(GameThreadTasks).Message
              c == RunTask(TaskTaken, Head(GameThreadTasks))
          IN /\ OneResponseWithId(c, Message.Id)
             /\ \A k \in Sends(c) : c.io[k].payload # ""
             /\ CurrentConnectionState' = "Connected"]_vars

\* The payload the dispatch contract gives for a method outside the table
UnknownCommandPayload(Method) ==
    "{\"success\":false,\"error\":\"Unknown command: " \o Method \o "\"}"

\* C26: ProcessBlueprintCommand called with a method that is not in the
\* command table returns {success:false, error:"Unknown command: <method>"}
\* for every params value, with and without a Blueprint Manager, and changes
\* neither the connection state nor the pending-request map.
C26_UnknownCommandPayload ==
    [][\A Method \in DirectMethods \ TableMethods, Params \in DirectParams :
         (lastCall' = "ProcessBlueprintCommand" /\ ProcessBlueprintCommandCall(Method, Params))
         => /\ ProcessBlueprintCommand(Self, Method, Params).Response =
                   UnknownCommandPayload(Method)
            /\ UNCHANGED <<CurrentConnectionState, PendingRequests>>]_vars

\* The message ParseMCPMessage makes of a request for Method
RequestFor(Method, params) ==
    ParseMCPMessage(Json(JString(CommandId), JString(Method), params, JAbsent, JAbsent)).Message

\* The handlers run, the messages sent and the members left by two calls agree
SameOutcome(a, b) ==
    /\ a.handlerCalls = b.handlerCalls
    /\ a.io = b.io
    /\ a.PendingRequests = b.PendingRequests
    /\ a.CurrentConnectionState = b.CurrentConnectionState

\* C27: set_property and set_blueprint_property are aliases: in every state,
\* for every params value, ProcessBlueprintCommand returns the same payload
\* for both names and the game-thread task of an inbound request sends the
\* same response for both, and with a Blueprint Manager both run
\* ProcessSetPropertyCommand once with the params given.
C27_SetPropertyAliases ==
    /\ \A Params \in DirectParams :
          LET a == ProcessBlueprintCommand(Self, "set_property", Params)
              b == ProcessBlueprintCommand(Self, "set_blueprint_property", Params)
          IN /\ a.Response = b.Response
             /\ SameOutcome(a.c, b.c)
             /\ BlueprintManager =>
                    b.c.handlerCalls = <<[handler |-> "ProcessSetPropertyCommand",
                                          Params |-> Params]>>
    /\ \A params \in InboundParams :
          LET a == MessageTaskBody(Self, RequestFor("set_property", params))
              b == MessageTaskBody(Self, RequestFor("set_blueprint_property", params))
          IN /\ SameOutcome(a, b)
             /\ a.events = b.events
             /\ BlueprintManager =>
                    b.handlerCalls = <<[handler |-> "ProcessSetPropertyCommand",
                                        Params |-> ParseParams(params)]>>

\* C27 witness: an inbound set_blueprint_property request has been handled by
\* ProcessSetPropertyCommand and answered
C27_Witness ==
    /\ lastCall = "GameThreadTask_command"
    /\ \E k \in 1..Len(lastEffects.logs) :
          lastEffects.logs[k].message = "Processing blueprint command: set_blueprint_property"
    /\ lastEffects.handlerCalls = <<[handler |-> "ProcessSetPropertyCommand", Params |-> "P"]>>
    /\ lastEffects.io = <<WsCall("Send", CommandId, "", "ProcessSetPropertyCommand")>>

\* The place of a widget in the array of registered widgets
RegistrationIndex(Widget) ==
    CHOOSE i \in 1..Len(RegisteredStatusWidgets) : RegisteredStatusWidgets[i] = Widget

\* The AddLogEntry calls k and l of the last step belong to one notify
SameNotify(k, l) ==
    /\ lastDelivery.widgetCalls[k].call = "AddLogEntry"
    /\ lastDelivery.widgetCalls[l].call = "AddLogEntry"
    /\ lastDelivery.widgetCalls[k].notify = lastDelivery.widgetCalls[l].notify

\* C28: each notify delivers the log entry to the registered widgets in
\* registration order: of two widgets that get the entry, the one registered
\* earlier gets it first.
C28_RegistrationOrder ==
    \A k, l \in 1..Len(lastDelivery.widgetCalls) :
        (k < l /\ SameNotify(k, l))
        => RegistrationIndex(lastDelivery.widgetCalls[k].widget)
               < RegistrationIndex(lastDelivery.widgetCalls[l].widget)

\* C29: a widget whose reference has expired is never called, and after a
\* notify has run on the game thread the array holds no expired reference,
\* while every widget that was registered and is still valid remains in it
\* (unless the step was an UnregisterStatusWidget call).
C29_PrunedOnNotify ==
    [][/\ \A k \in 1..Len(lastDelivery'.widgetCalls) :
             lastDelivery'.widgetCalls[k].widget \in ValidWidgets
       /\ lastDelivery'.notified
            => /\ Referenced(RegisteredStatusWidgets') \subseteq ValidWidgets'
               /\ lastCall' # "UnregisterStatusWidget"
                    => (Referenced(RegisteredStatusWidgets) \cap ValidWidgets)
                           \subseteq Referenced(RegisteredStatusWidgets')]_vars

\* C29 witness: a queued notify has run on the game thread, has removed the
\* expired reference to w1 and has called w2, which stays registered
C29_Witness ==
    /\ lastCall = "GameThreadTask"
    /\ lastDelivery.notified
    /\ lastDelivery.removed = {"w1"}
    /\ \E k \in 1..Len(lastDelivery.widgetCalls) : lastDelivery.widgetCalls[k].widget = "w2"
    /\ RegisteredStatusWidgets = <<"w2">>
    /\ ValidWidgets = {"w2"}

\* C30: widget callbacks and delegates are invoked only on the game thread: a
\* call or event handled on another thread calls no widget and broadcasts no
\* delegate; what it has to deliver is queued for the game thread.
C30_GameThreadOnly ==
    ~lastDelivery.bIsInGameThread
    => /\ lastDelivery.widgetCalls = <<>>
       /\ lastDelivery.delegates = <<>>

\* C30 witness: the transport-opened event was handled off the game thread
\* with a widget registered; its two log entries and its state notification
\* are queued
C30_Witness ==
    /\ lastCall = "OnWebSocketConnected"
    /\ ~lastDelivery.bIsInGameThread
    /\ CurrentConnectionState = "Connected"
    /\ RegisteredStatusWidgets = <<"w1">>
    /\ "w1" \in ValidWidgets
    /\ Len(GameThreadTasks) = 3
    /\ GameThreadTasks[1].kind = "log"
    /\ GameThreadTasks[2].kind = "log"
    /\ GameThreadTasks[3] = StateTask("Connected", "")

\* C36: the state and the transport handle agree: in state Connected the
\* client holds a socket, and in state Disconnected it holds none.
C36_StateMatchesHandle ==
    /\ CurrentConnectionState = "Connected" => WebSocket # "null"
    /\ CurrentConnectionState = "Disconnected" => WebSocket = "null"

\* C39: the attempt counter stays within 0..MaxReconnectAttempts, and a
\* reconnect timer that fires in state Connected or Connecting, or with the
\* counter at the maximum, leaves the counter as it is.
C39_CounterBounded ==
    /\ ReconnectAttempts \in 0..MaxReconnectAttempts
    /\ [][/\ ReconnectAttempts' \in 0..MaxReconnectAttempts
          /\ (/\ lastCall' = "AttemptReconnect"
              /\ \/ CurrentConnectionState \in {"Connected", "Connecting"}
                 \/ ReconnectAttempts >= MaxReconnectAttempts)
             => ReconnectAttempts' = ReconnectAttempts]_vars

\* C39 witness: the timer has fired with the counter at the maximum and the
\* client has given up without counting
C39_Witness ==
    /\ lastCall = "AttemptReconnect"
    /\ ReconnectAttempts = MaxReconnectAttempts
    /\ CurrentConnectionState = "Failed"
    /\ LastErrorMessage = MaxAttemptsError

\* A payload field that arrived as an object, an array or a string is decoded
\* to its content
PayloadKept(v, decoded) ==
    v.type \in {"object", "array", "string"} => decoded = v.text

\* C34: params, result and error are each accepted as an object, an array or
\* a bare string: the message queued for the game thread keeps the content of
\* every payload field the text received carries, none decoded to the empty
\* string.
C34_PayloadShapesDecoded ==
    \A k \in 1..Len(GameThreadTasks) :
        GameThreadTasks[k].kind = "msg"
        => /\ PayloadKept(GameThreadTasks[k].JsonMessage.params, GameThreadTasks[k].Message.Params)
           /\ PayloadKept(GameThreadTasks[k].JsonMessage.result, GameThreadTasks[k].Message.Result)
           /\ PayloadKept(GameThreadTasks[k].JsonMessage.error, GameThreadTasks[k].Message.Error)

\* The OnOperationComplete broadcast of the last step
CompletionOf(effects) ==
    effects.events[CHOOSE k \in 1..Len(effects.events) :
                       effects.events[k].delegate = "OnOperationComplete"]

\* C40: when the game thread completes a pending request, OnOperationComplete
\* reports bSuccess=false with the error payload whenever the response
\* received carries an error field, and bSuccess=true with the result payload
\* only when it carries a result field and no error field.
C40_SuccessFollowsErrorField ==
    [][(lastCall' = "GameThreadTask_completed")
       => LET json == Head(GameThreadTasks).JsonMessage
              done == CompletionOf(lastEffects')
          IN /\ HasField(json.error)
                  => ~done.ok /\ done.data = json.error.text
             /\ done.ok
                  => /\ HasField(json.result) /\ ~HasField(json.error)
                     /\ done.data = json.result.text]_vars

\* C35: SendRequest with an id that is already pending either rejects the call
\* (nothing registered, nothing sent) or overwrites the entry and logs at
\* Warning level; the map holds one entry for the id either way.
C35_DuplicateIdHandled ==
    [][\A Method \in RequestMethods, id \in Ids :
           (id \in DOMAIN PendingRequests /\ SendRequestCall(Method, id, TRUE))
           => LET r == SendRequest(Self, Method, "{}", id, id)
              IN \/ /\ r.ret = ""
                    /\ r.c.io = <<>>
                    /\ UNCHANGED PendingRequests
                 \/ /\ id \in DOMAIN PendingRequests'
                    /\ \E k \in 1..Len(r.c.logs) : r.c.logs[k].level = "Warning"]_vars

\* The three send calls
SendCalls == {"SendRequest", "SendNotification", "SendRawMessage"}

\* C37: SendRequest, SendNotification and SendRawMessage called in a state
\* other than Connected return the empty string or false, write nothing to
\* the socket and leave the pending-request map and the connection state as
\* they are.
C37_SendWhileNotConnected ==
    [][(CurrentConnectionState # "Connected" /\ lastCall' \in SendCalls)
       => /\ UNCHANGED <<PendingRequests, CurrentConnectionState, WebSocket>>
          /\ lastCall' \in {"SendNotification", "SendRawMessage"}
               => /\ lastEffects'.ret = "false"
                  /\ lastEffects'.io = <<>>
          /\ \A Method \in RequestMethods, id \in Ids, explicit \in BOOLEAN :
                 SendRequestCall(Method, id, explicit)
                 => LET r == SendRequest(Self, Method, "{}", IF explicit THEN id ELSE "", id)
                    IN r.ret = "" /\ r.c.io = <<>>]_vars

\* C37 witness: SendRawMessage was called during the handshake, with the
\* socket at hand, and was refused with a warning
C37_Witness ==
    /\ lastCall = "SendRawMessage"
    /\ CurrentConnectionState = "Connecting"
    /\ WebSocket = "connecting"
    /\ lastEffects.ret = "false"
    /\ lastEffects.io = <<>>
    /\ lastEffects.logs = <<[level |-> "Warning",
                             message |-> "Cannot send message: WebSocket not connected"]>>

\* Two payload texts hold the same content
SameContent(a, b) == Canonical(a) = Canonical(b)

\* Decoding the text made of a message gives the message back
Preserved(Message, decoded) ==
    /\ decoded.Id = Message.Id
    /\ decoded.Method = Message.Method
    /\ decoded.Type = Message.Type
    /\ SameContent(decoded.Params, Message.Params)
    /\ SameContent(decoded.Result, Message.Result)
    /\ SameContent(decoded.Error, Message.Error)

\* C33: for every valid message m, decoding the text encoded from m succeeds
\* and preserves id, method, kind and the content of params, result and
\* error: every text of the encoder that arrives is queued as a message, and
\* the message queued equals each m the text can have been made of.
C33_DecodeOfEncode ==
    [][\A Message \in ValidMessages :
           (lastCall' = "OnWebSocketMessage" /\ PeerEchoes(Message))
           => /\ ParseMCPMessage(CreateJsonFromMCPMessage(Message)).ok
              /\ Len(GameThreadTasks') = Len(GameThreadTasks) + 1
              /\ GameThreadTasks'[Len(GameThreadTasks')].kind = "msg"
              /\ Preserved(Message, GameThreadTasks'[Len(GameThreadTasks')].Message)]_vars

\* C33 witness: a response whose result is an array written with other white
\* space has come back and is queued with the array as the writer prints it
C33_Witness ==
    /\ lastCall = "OnWebSocketMessage"
    /\ GameThreadTasks # <<>>
    /\ GameThreadTasks[Len(GameThreadTasks)].JsonMessage =
           CreateJsonFromMCPMessage(FMCPMessage("req_1", "response", "", "", Spaced("A"), ""))
    /\ GameThreadTasks[Len(GameThreadTasks)].Message =
           FMCPMessage("req_1", "response", "", "", "A", "")

\* C32: a message produced for one connection is never sent on a later one:
\* the game-thread task of a message received on a connection that has ended
\* since sends nothing on the connection open now.
C32_NoSendAcrossReconnect ==
    [][(/\ lastCall' \in TaskCalls
        /\ Head(GameThreadTasks).kind = "msg"
        /\ staleTasks > 0)
       => Sends(lastEffects') = {}]_vars

\* A SendRequest() is inside its Add or its roll-back Remove
SendInsideMap == SendThread.pc \in {"LockAdd", "LockRemove"}

\* A message task is inside its Find and Remove
TaskInsideMap == TaskThread.pc \in {"Lock", "Find"}

\* C31: the operations on the pending-request map exclude one another. A
\* SendRequest() inside its Add or its roll-back Remove and a message task
\* inside its Find and Remove are never in progress together, Disconnect()
\* empties the map only while neither is inside, RequestsMutex is held
\* exactly while one of them is inside, and an entry that a message task
\* found is still in the map when the task removes it.
C31_MapOperationsExclusive ==
    /\ ~(SendInsideMap /\ TaskInsideMap)
    /\ (lastCall = "Disconnect_Empty" => ~SendInsideMap /\ ~TaskInsideMap)
    /\ (RequestsMutex = "SendRequest" <=> SendInsideMap)
    /\ (RequestsMutex = "GameThreadTask" <=> TaskInsideMap)
    /\ (TaskThread.pc = "Find" /\ TaskThread.bFoundRequest
           => TaskThread.Message.Id \in DOMAIN PendingRequests)

\* A SendRequest() is inside its Add while Disconnect() is about to empty
\* the map and the task of a response is next on the game thread
C31_Witness ==
    /\ SendThread.pc = "LockAdd"
    /\ DisconnectThread.pc = "Close"
    /\ GameThreadTasks # <<>>
    /\ Head(GameThreadTasks).kind = "msg"
    /\ TaskThread.pc = "idle"

\* C38: a SendRequest() running beside Disconnect() and the message tasks
\* writes its request only while the entry it registered is in the map,
\* returns the id only if that entry is still registered, and when the write
\* fails removes the entry of this call only: its roll-back never takes an
\* entry that belonged to an earlier request with the same id.
C38_RegisteredBeforeWriteRollbackOwn ==
    [][/\ (lastCall' = "SendRequest_sent"
              => /\ SendThread.ActualRequestId \in DOMAIN PendingRequests
                 /\ lastEffects'.ret = SendThread.ActualRequestId)
       /\ (lastCall' = "SendRequest_failed" /\ SendThread.pc = "LockRemove"
              => /\ ~SendThread.bReplaced
                 /\ lastEffects'.ret = ""
                 /\ SendThread.ActualRequestId \notin DOMAIN PendingRequests')]_vars


====
